---- MODULE Spec2Model ----
(***************************************************************************)
(* Fork-choice store (GenesisStore, OnBlock, ancestor,                     *)
(* latestAttestingBalance, Head), the block bucket of the kv store and its *)
(* secondary indices, and the proposer-slashing gossip validator of the    *)
(* beacon-chain node.                                                      *)
(*                                                                         *)
(* Roots are natural numbers; bytes.Compare on two roots is the order of   *)
(* the numbers.  A block is identified by its signing root, an injective   *)
(* function of its content, so the blocks a node can ever receive form a   *)
(* finite table (BlockTable) of contents indexed by root.                  *)
(***************************************************************************)
EXTENDS Integers, Naturals, Sequences, FiniteSets, TLC

VARIABLES
    blocksBucket,      \* kv blocksBucket: root -> block (domain = stored roots)
    parentRootIdx,     \* kv parentRootIndicesBucket: parent root -> set of roots
    slotIdx,           \* kv blockSlotIndicesBucket: slot -> set of roots
    stateBucket,       \* kv state bucket: block root -> state
    votes,             \* kv validator latest votes: index -> vote
    justifiedCheckpt,  \* Store.justifiedCheckpt
    finalizedCheckpt,  \* Store.finalizedCheckpt
    checkptBlkRoot,    \* Store.checkptBlkRoot: hash(checkpoint) -> root
    ret,               \* what the last fork-choice / db operation returned
    seenProposerSlashings, \* ccache of the gossip validator: set of keys
    syncHeadState,     \* the head state the gossip validator reads
    broadcasts,        \* Broadcaster invocations per slashing
    accepted,          \* slashings for which some call returned true
    sret,              \* what the last gossip-validator call returned
    scall,             \* what the last gossip-validator call was given
    rejected,          \* slashings for which some call found the predicate failing
    dropped,           \* slashings for which some call found no head state
    lost,              \* slashings for which some Broadcast call failed
    pc,                \* concurrent gossip validators: position and locals
    numGoroutine,      \* runtime.NumGoroutine()
    maxRoutines,       \* ChainService.maxRoutines
    statusRet,         \* what the last Status call returned
    wire,              \* the bytes written to the io.Writer, read by the io.Reader
    encRet,            \* what the last Encode or Decode call was given and returned
    peerIdx,           \* InitialSync.run: position in the sorted peer list
    nodeIsSynced,      \* InitialSync.nodeIsSynced
    regularSyncOn,     \* whether syncService.ResumeSync was called
    headStateRoot,     \* db.HeadStateRoot()
    initRet,           \* what the last step of initial sync returned
    lock               \* Store.lock: the writer and the readers that hold it

fcVars   == <<blocksBucket, parentRootIdx, slotIdx, stateBucket, votes,
              justifiedCheckpt, finalizedCheckpt, checkptBlkRoot, ret>>
syncVars == <<seenProposerSlashings, syncHeadState, broadcasts, accepted, sret,
              scall, rejected, dropped, lost, pc>>
auxVars  == <<numGoroutine, maxRoutines, statusRet, wire, encRet, peerIdx,
              nodeIsSynced, regularSyncOn, headStateRoot, initRet, lock>>
vars     == <<blocksBucket, parentRootIdx, slotIdx, stateBucket, votes,
              justifiedCheckpt, finalizedCheckpt, checkptBlkRoot, ret,
              seenProposerSlashings, syncHeadState, broadcasts, accepted, sret,
              scall, rejected, dropped, lost, pc,
              numGoroutine, maxRoutines, statusRet, wire, encRet, peerIdx,
              nodeIsSynced, regularSyncOn, headStateRoot, initRet, lock>>

----------------------------------------------------------------------------
\* Program constants (minimal configuration of the end-to-end scenarios).

SlotsPerEpoch  == 8
SecondsPerSlot == 6
\* uint64 arithmetic wraps; the model keeps the wrap at a narrower word.
WordBits       == 16
Uint64         == 2^WordBits

\* The 32 zero bytes (parent root of the genesis block, missing map entry).
ZeroRoot == 0
\* A nil byte slice (ancestor's "no ancestor" result).
NilRoot  == 0 - 1

\* Absent values.
NoState == [absent |-> "state"]
NoVote  == [absent |-> "vote"]
NilCheckpt == [absent |-> "checkpoint"]

----------------------------------------------------------------------------
\* Validator registry of the genesis state: 1 and 2 are active from epoch 0,
\* 3 is activated at epoch 1.

FarFutureEpoch == Uint64 - 1

ValidatorIndices == {1, 2, 3}

GenesisValidators ==
    [i \in ValidatorIndices |->
        [effective_balance |-> IF i = 3 THEN 4 ELSE 1,
         activation_epoch  |-> IF i = 3 THEN 1 ELSE 0,
         exit_epoch        |-> FarFutureEpoch]]

\* Epochs whose start-slot block root a state records (state.block_roots at
\* the epoch boundaries).
MaxEpoch == 2
Epochs == 0..MaxEpoch

GenesisState ==
    [genesis_time |-> 1000,
     slot         |-> 0,
     validators   |-> GenesisValidators,
     block_roots  |-> [e \in Epochs |-> ZeroRoot],
     current_justified_checkpoint |-> [epoch |-> 0, root |-> ZeroRoot],
     finalized_checkpoint         |-> [epoch |-> 0, root |-> ZeroRoot]]

GenesisStates == {GenesisState}

\* ssz.HashTreeRoot of a state: injective on the states that are hashed.
HashTreeRoot(st) == 100 + st.genesis_time

\* What a block body makes the state transition do: whether the block is
\* valid, and the epochs its attestations justify and finalize (0 = none).
Body(valid, j, f) == [valid |-> valid, justifies |-> j, finalizes |-> f]

\* blocks.NewGenesisBlock
NewGenesisBlock(stateRoot) ==
    [slot |-> 0, parent_root |-> ZeroRoot, state_root |-> stateRoot,
     body |-> Body(TRUE, 0, 0)]

\* The zero-valued block proto.
EmptyBlock ==
    [slot |-> 0, parent_root |-> NilRoot, state_root |-> NilRoot,
     body |-> Body(FALSE, 0, 0)]

GenesisRoot == 1

\* The blocks the node can receive, by signing root.
\*   1 G : genesis
\*   2 E : slot 9,  child of G, justifies epoch 1
\*   3 A : slot 1,  child of G
\*   4 B : slot 1,  child of G, fails the state transition
\*   5 C : slot 17, child of A, justifies epoch 2 and finalizes epoch 1
\*   6 F : slot 1,  child of A, at the slot of its parent
\* The state root of a block tells blocks of one slot and parent apart.
BlockTable ==
    [r \in 1..6 |->
        CASE r = 1 -> NewGenesisBlock(HashTreeRoot(GenesisState))
          [] r = 2 -> [slot |-> 9,  parent_root |-> 1, state_root |-> 202, body |-> Body(TRUE, 1, 0)]
          [] r = 3 -> [slot |-> 1,  parent_root |-> 1, state_root |-> 203, body |-> Body(TRUE, 0, 0)]
          [] r = 4 -> [slot |-> 1,  parent_root |-> 1, state_root |-> 204, body |-> Body(FALSE, 0, 0)]
          [] r = 5 -> [slot |-> 17, parent_root |-> 3, state_root |-> 205, body |-> Body(TRUE, 2, 1)]
          [] r = 6 -> [slot |-> 1,  parent_root |-> 3, state_root |-> 206, body |-> Body(TRUE, 0, 0)]]

\* The blocks whose slots grow along the parent pointers.
Roots == 1..5
InputBlocks == {BlockTable[r] : r \in Roots \ {GenesisRoot}}

\* ssz.SigningRoot of a block: injective on block contents.
SigningRoot(b) ==
    IF \E r \in DOMAIN BlockTable : BlockTable[r] = b
    THEN CHOOSE r \in DOMAIN BlockTable : BlockTable[r] = b
    ELSE 99

\* hashutil.HashProto of a checkpoint: injective.
HashProto(c) == c.epoch * 100 + c.root + 1

\* bytesutil.ToBytes32: nil and short slices are zero-padded.
ToBytes32(root) == IF root = NilRoot THEN ZeroRoot ELSE root

\* helpers.StartSlot and helpers.CurrentEpoch
StartSlot(epoch) == (epoch * SlotsPerEpoch) % Uint64
CurrentEpoch(st) == st.slot \div SlotsPerEpoch

\* helpers.ActiveValidatorIndices
ActiveValidatorIndices(st, epoch) ==
    {i \in DOMAIN st.validators :
        st.validators[i].activation_epoch <= epoch
        /\ epoch < st.validators[i].exit_epoch}

----------------------------------------------------------------------------
\* kv store reads.

\* kv.Store.Block: the zero-valued block when the key is absent.
Block(bucket, blockRoot) ==
    IF blockRoot \in DOMAIN bucket THEN bucket[blockRoot] ELSE EmptyBlock

\* kv.Store.State
State(bucket, blockRoot) ==
    IF blockRoot \in DOMAIN bucket THEN bucket[blockRoot] ELSE NoState

\* kv.Store.ValidatorLatestVote
ValidatorLatestVote(vs, i) == vs[i]

----------------------------------------------------------------------------
\* Block queries.

\* filters.QueryFilter: the criteria that were set.
NilFilter == [nil |-> TRUE]
NewFilter == [nil |-> FALSE, hasParentRoot |-> FALSE, parentRoot |-> ZeroRoot,
              hasStartSlot |-> FALSE, startSlot |-> 0,
              hasEndSlot |-> FALSE, endSlot |-> 0]
SetParentRoot(f, r) == [f EXCEPT !.hasParentRoot = TRUE, !.parentRoot = r]
SetStartSlot(f, s)  == [f EXCEPT !.hasStartSlot = TRUE, !.startSlot = s]
SetEndSlot(f, s)    == [f EXCEPT !.hasEndSlot = TRUE, !.endSlot = s]

\* lookupValuesForIndicesMap on one index key.
LookupIndex(idx, key) == IF key \in DOMAIN idx THEN idx[key] ELSE {}

\* sliceutil.IntersectionByteSlices / UnionByteSlices on a collection of lists.
IntersectionByteSlices(lists) ==
    IF lists = {} THEN {}
    ELSE {k \in UNION lists : \A l \in lists : k \in l}
UnionByteSlices(lists) == UNION lists

\* kv.Store.Blocks: the keys whose blocks are returned.
BlockKeys(bkt, pIdx, sIdx, f) ==
    IF f = NilFilter THEN DOMAIN bkt
    ELSE
      LET vals == IF f.hasStartSlot /\ f.hasEndSlot
                  THEN {sIdx[k] : k \in {k \in DOMAIN sIdx :
                                            f.startSlot <= k /\ k <= f.endSlot}}
                  ELSE {}
          indices == IF f.hasParentRoot
                     THEN {LookupIndex(pIdx, f.parentRoot)}
                     ELSE {}
      IN IF indices # {}
         THEN IntersectionByteSlices(vals \cup indices)
         ELSE UnionByteSlices(vals)

\* kv.Store.BlockRoots: signing roots of the blocks Blocks returns.
BlockRoots(bkt, pIdx, sIdx, f) ==
    {SigningRoot(Block(bkt, k)) : k \in BlockKeys(bkt, pIdx, sIdx, f)}

\* The order in which a query hands back its result is unspecified: a result
\* set is listed ascending, rotated by rot and reversed when rev.
Orders == [rev : BOOLEAN, rot : 0..2]

RECURSIVE Ascending(_)
Ascending(S) ==
    IF S = {} THEN <<>>
    ELSE LET m == CHOOSE x \in S : \A y \in S : x <= y
         IN <<m>> \o Ascending(S \ {m})

Listed(S, ord) ==
    LET a == Ascending(S)
        n == Len(a)
        r == [i \in 1..n |-> a[((i - 1 + ord.rot) % n) + 1]]
    IN IF ord.rev THEN [i \in 1..n |-> r[n + 1 - i]] ELSE r

----------------------------------------------------------------------------
\* Fork-choice store, pure parts.

\* Store.ancestor.  Block never hands back nil, so the b == nil test of the
\* source is never true and only the slot tests decide.
RECURSIVE ancestor(_, _, _)
ancestor(bkt, root, slot) ==
    LET b == Block(bkt, ToBytes32(root))
    IN IF b.slot < slot THEN NilRoot
       ELSE IF b.slot = slot THEN root
       ELSE ancestor(bkt, b.parent_root, slot)

\* Sum of the effective balances of a set of validators, as the loop adds them.
RECURSIVE SumBalances(_, _)
SumBalances(st, S) ==
    IF S = {} THEN 0
    ELSE LET i == CHOOSE x \in S : TRUE
         IN (st.validators[i].effective_balance + SumBalances(st, S \ {i})) % Uint64

\* latestAttestingBalance that counts a vote for every block of the slot it
\* asks the ancestor at, instead of comparing the ancestor with the root.
latestAttestingBalance_anyAncestor(bkt, sbkt, vs, justified, cpMap, root) ==
    LET h == HashProto(justified)
        lastJustifiedBlkRoot == IF h \in DOMAIN cpMap THEN cpMap[h] ELSE ZeroRoot
        lastJustifiedState == State(sbkt, lastJustifiedBlkRoot)
    IN IF lastJustifiedState = NoState THEN 0
       ELSE
         LET lastJustifiedEpoch == CurrentEpoch(lastJustifiedState)
             activeIndices == ActiveValidatorIndices(lastJustifiedState, lastJustifiedEpoch)
             wantedBlk == Block(bkt, ToBytes32(root))
             counted == {i \in activeIndices :
                            /\ ValidatorLatestVote(vs, i) # NoVote
                            /\ ancestor(bkt, ValidatorLatestVote(vs, i).root,
                                        wantedBlk.slot) # NilRoot}
         IN SumBalances(lastJustifiedState, counted)

\* Store.latestAttestingBalance
latestAttestingBalance(bkt, sbkt, vs, justified, cpMap, root) ==
    LET h == HashProto(justified)
        lastJustifiedBlkRoot == IF h \in DOMAIN cpMap THEN cpMap[h] ELSE ZeroRoot
        lastJustifiedState == State(sbkt, lastJustifiedBlkRoot)
    IN IF lastJustifiedState = NoState THEN 0
       ELSE
         LET lastJustifiedEpoch == CurrentEpoch(lastJustifiedState)
             activeIndices == ActiveValidatorIndices(lastJustifiedState, lastJustifiedEpoch)
             wantedBlk == Block(bkt, ToBytes32(root))
             counted == {i \in activeIndices :
                            /\ ValidatorLatestVote(vs, i) # NoVote
                            /\ ancestor(bkt, ValidatorLatestVote(vs, i).root,
                                        wantedBlk.slot) = root}
         IN SumBalances(lastJustifiedState, counted)

\* BestChild with the tie broken towards the lower root.
RECURSIVE BestChild_lowerTie(_, _, _, _, _)
BestChild_lowerTie(children, i, head, highest, bal) ==
    IF i > Len(children) THEN head
    ELSE LET child == children[i]
             balance == bal[child]
         IN IF balance > highest \/ (balance = highest /\ child < head)
            THEN BestChild_lowerTie(children, i + 1, child, balance, bal)
            ELSE BestChild_lowerTie(children, i + 1, head, highest, bal)

\* The inner loop of Store.Head: the best of a non-empty list of children.
RECURSIVE BestChild(_, _, _, _, _)
BestChild(children, i, head, highest, bal) ==
    IF i > Len(children) THEN head
    ELSE LET child == children[i]
             balance == bal[child]
         IN IF balance > highest \/ (balance = highest /\ child > head)
            THEN BestChild(children, i + 1, child, balance, bal)
            ELSE BestChild(children, i + 1, head, highest, bal)

PickChild(children, bal) ==
    IF Len(children) > 1
    THEN BestChild(children, 2, children[1], bal[children[1]], bal)
    ELSE children[1]

\* HeadChildren that asks for the later blocks of any parent.
HeadChildren_anyParent(bkt, pIdx, sIdx, justified, head) ==
    LET startSlot == (justified.epoch * SlotsPerEpoch) % Uint64
    IN {r \in DOMAIN bkt : /\ bkt[r].slot > startSlot
                           /\ bkt[r].slot > Block(bkt, head).slot}

\* The children query of Store.Head.
HeadChildren(bkt, pIdx, sIdx, justified, head) ==
    LET startSlot == (justified.epoch * SlotsPerEpoch) % Uint64
        filter == SetStartSlot(SetParentRoot(NewFilter, head), startSlot)
    IN BlockRoots(bkt, pIdx, sIdx, filter)

\* Store.Head, from the node the walk stands on.
RECURSIVE HeadFrom(_, _, _, _, _, _, _, _, _)
HeadFrom(bkt, pIdx, sIdx, sbkt, vs, justified, cpMap, head, ord) ==
    LET children == Listed(HeadChildren(bkt, pIdx, sIdx, justified, head), ord)
        bal == [c \in {children[i] : i \in 1..Len(children)} |->
                   latestAttestingBalance(bkt, sbkt, vs, justified, cpMap, c)]
    IN IF Len(children) = 0 THEN head
       ELSE HeadFrom(bkt, pIdx, sIdx, sbkt, vs, justified, cpMap,
                     PickChild(children, bal), ord)

StoreHead(bkt, pIdx, sIdx, sbkt, vs, justified, cpMap, ord) ==
    HeadFrom(bkt, pIdx, sIdx, sbkt, vs, justified, cpMap, justified.root, ord)

----------------------------------------------------------------------------
\* State transition.

\* state.ExecuteStateTransition: the post-state of a valid block, or NoState
\* when the transition fails.  block_roots[e] is the root of the latest block
\* at or before the start slot of epoch e on the chain of the state.
ExecuteStateTransition(preState, b) ==
    IF ~b.body.valid \/ b.slot <= preState.slot THEN NoState
    ELSE
      LET roots == [e \in Epochs |->
                      IF StartSlot(e) < preState.slot THEN preState.block_roots[e]
                      ELSE IF StartSlot(e) < b.slot THEN b.parent_root
                      ELSE ZeroRoot]
          j == b.body.justifies
          f == b.body.finalizes
          just == IF j > preState.current_justified_checkpoint.epoch
                     /\ j \in Epochs /\ StartSlot(j) < b.slot
                  THEN [epoch |-> j, root |-> roots[j]]
                  ELSE preState.current_justified_checkpoint
          fin  == IF f > preState.finalized_checkpoint.epoch
                     /\ f \in Epochs /\ f < just.epoch
                  THEN [epoch |-> f, root |-> roots[f]]
                  ELSE preState.finalized_checkpoint
      IN [genesis_time |-> preState.genesis_time,
          slot         |-> b.slot,
          validators   |-> preState.validators,
          block_roots  |-> roots,
          current_justified_checkpoint |-> just,
          finalized_checkpoint         |-> fin]

----------------------------------------------------------------------------
\* Block admission checks.

\* verifyBlkPreState that reads the state stored under the genesis root.
verifyBlkPreState_genesis(sbkt, b) == State(sbkt, GenesisRoot)

\* Store.verifyBlkPreState: the pre-state, NoState when it does not exist.
verifyBlkPreState(sbkt, b) == State(sbkt, ToBytes32(b.parent_root))

\* verifyBlkSlotTime that also rejects a slot time equal to the current time.
verifyBlkSlotTime_rejectsNow(gensisTime, blkSlot, currentTime) ==
    LET slotTime == (gensisTime + ((blkSlot * SecondsPerSlot) % Uint64)) % Uint64
    IN ~(slotTime >= currentTime)

\* verifyBlkSlotTime: TRUE when the check passes.
verifyBlkSlotTime(gensisTime, blkSlot, currentTime) ==
    LET slotTime == (gensisTime + ((blkSlot * SecondsPerSlot) % Uint64)) % Uint64
    IN ~(slotTime > currentTime)

\* Store.verifyBlkDescendant: TRUE when the check passes.
verifyBlkDescendant(bkt, finalized, root) ==
    LET finalizedBlk == Block(bkt, ToBytes32(finalized.root))
        bFinalizedRoot == ancestor(bkt, root, finalizedBlk.slot)
    IN bFinalizedRoot = finalized.root

\* Store.verifyBlkFinalizedSlot: TRUE when the check passes.
verifyBlkFinalizedSlot(finalized, b) ==
    LET finalizedSlot == StartSlot(finalized.epoch)
    IN ~(finalizedSlot >= b.slot)

----------------------------------------------------------------------------
\* Results of operations.

Ret(op, root, err, post, now, val) ==
    [op |-> op, root |-> root, err |-> err, post |-> post, now |-> now, val |-> val]

\* The result of OnBlock; known tells that the block and a state under its
\* root were stored when the call was made.
RetOnBlock(root, err, post, now, known) ==
    [op |-> "OnBlock", root |-> root, err |-> err, post |-> post, now |-> now,
     val |-> 0, known |-> known]

\* Wall-clock readings of time.Now().Unix() at a call.
Times == {GenesisState.genesis_time + SecondsPerSlot - 1,
          GenesisState.genesis_time + 17 * SecondsPerSlot}

\* Roots that the attestations of a validator vote for.
VoteRoots(i) == IF i = 3 THEN {5} ELSE {4, 5}

\* Outcome of the two writes of a persist step: both succeed, the block write
\* fails, or the state write fails.
PersistOutcomes == {"ok", "block", "state"}

Initialized == checkptBlkRoot # <<>>

----------------------------------------------------------------------------
\* Gossip validation of proposer slashings: data.

\* The proposer slashings that peers gossip, and a message of another type.
SlashingIds == {1, 2, 3}
Messages == {[type |-> "ProposerSlashing", id |-> x] : x \in SlashingIds}
                \cup {[type |-> "Attestation", id |-> 1]}

\* The head states the validator can read.
HeadStates == {1, 2}

\* propSlashingCacheKey: the hash of the slashing as a string; injective.
propSlashingCacheKey(slashing) == 50 + slashing.id

\* Keys of the seen-cache: the hash, or the hash behind the invalid prefix.
ValidKey(cacheKey)   == [invalid |-> FALSE, hash |-> cacheKey]
InvalidKey(cacheKey) == [invalid |-> TRUE, hash |-> cacheKey]

\* blocks.VerifyProposerSlashing: slashing 1 verifies against every head
\* state, slashing 2 only against head state 2, slashing 3 against none.
VerifyProposerSlashing(state, slashing) ==
    \/ slashing.id = 1
    \/ slashing.id = 2 /\ state = 2

SRet(op, id, result, verified, broadcastCalled) ==
    [op |-> op, id |-> id, result |-> result, verified |-> verified,
     broadcastCalled |-> broadcastCalled]

\* What a call meets: whether HeadState and Broadcast return an error.
SCall(headErr, bcastErr) == [headErr |-> headErr, bcastErr |-> bcastErr]

\* The goroutines that run gossip validators at the same time, and where one
\* of them stands when it is not in a call.
Procs == {1, 2, 3}
Idle == [at |-> "idle", id |-> 0, state |-> 0]

----------------------------------------------------------------------------
\* Initial state: NewForkChoiceService on an empty database.

Init ==
    /\ blocksBucket = <<>>
    /\ parentRootIdx = <<>>
    /\ slotIdx = <<>>
    /\ stateBucket = <<>>
    /\ votes = [i \in ValidatorIndices |-> NoVote]
    /\ justifiedCheckpt = NilCheckpt
    /\ finalizedCheckpt = NilCheckpt
    /\ checkptBlkRoot = <<>>
    /\ ret = Ret("init", ZeroRoot, "ok", NoState, 0, 0)
    /\ seenProposerSlashings = {}
    /\ syncHeadState = 1
    /\ broadcasts = [x \in SlashingIds |-> 0]
    /\ accepted = {}
    /\ sret = SRet("init", 0, FALSE, FALSE, FALSE)
    /\ scall = SCall(FALSE, FALSE)
    /\ rejected = {}
    /\ dropped = {}
    /\ lost = {}
    /\ pc = [p \in Procs |-> Idle]
    /\ numGoroutine = 1
    /\ maxRoutines = 0
    /\ statusRet = [op |-> "none", err |-> FALSE, count |-> 0, max |-> 0]
    /\ wire = <<>>
    /\ encRet = [op |-> "none", useSnappy |-> FALSE, msg |-> [nil |-> TRUE],
                 wrote |-> 0, err |-> FALSE, to |-> [nil |-> TRUE],
                 filled |-> TRUE]
    /\ peerIdx = 0
    /\ nodeIsSynced = FALSE
    /\ regularSyncOn = FALSE
    /\ headStateRoot = ZeroRoot
    /\ initRet = [op |-> "none", peer |-> 0, err |-> "nil", stateRoot |-> 0,
                  peerRoot |-> 0]
    /\ lock = [writer |-> 0, readers |-> {}]

----------------------------------------------------------------------------
\* kv store writes.

\* updateValueForIndicesMap on one index key.
UpdateIndex(idx, key, root) ==
    (key :> (LookupIndex(idx, key) \cup {root})) @@ idx

\* kv.Store.SaveBlock: the three buckets after the write transaction.
SaveBlockBuckets(bkt, pIdx, sIdx, block) ==
    LET blockRoot == SigningRoot(block)
    IN [blocks |-> (blockRoot :> block) @@ bkt,
        pIdx   |-> UpdateIndex(pIdx, ToBytes32(block.parent_root), blockRoot),
        sIdx   |-> UpdateIndex(sIdx, block.slot, blockRoot)]

\* kv.Store.SaveState
SaveStateBucket(sbkt, st, blockRoot) == (blockRoot :> st) @@ sbkt

\* A caller (sync) saves a received block.
SaveBlock(block) ==
    /\ Initialized
    /\ LET w == SaveBlockBuckets(blocksBucket, parentRootIdx, slotIdx, block)
       IN /\ blocksBucket' = w.blocks
          /\ parentRootIdx' = w.pIdx
          /\ slotIdx' = w.sIdx
    /\ ret' = Ret("SaveBlock", SigningRoot(block), "ok", NoState, 0, 0)
    /\ UNCHANGED <<stateBucket, votes, justifiedCheckpt, finalizedCheckpt,
                   checkptBlkRoot>>
    /\ UNCHANGED syncVars
    /\ UNCHANGED auxVars

\* kv.Store.SaveValidatorLatestVote
SaveValidatorLatestVote(i, root) ==
    /\ Initialized
    /\ votes' = [votes EXCEPT ![i] =
                    [epoch |-> BlockTable[root].slot \div SlotsPerEpoch,
                     root  |-> root]]
    /\ ret' = Ret("SaveValidatorLatestVote", root, "ok", NoState, 0, i)
    /\ UNCHANGED <<blocksBucket, parentRootIdx, slotIdx, stateBucket,
                   justifiedCheckpt, finalizedCheckpt, checkptBlkRoot>>
    /\ UNCHANGED syncVars
    /\ UNCHANGED auxVars

----------------------------------------------------------------------------
\* Fork-choice operations.

\* GenesisCheckpoint that keeps the zero root of the genesis state's checkpoints.
GenesisCheckpoint_zeroRoot(blkRoot) == [epoch |-> 0, root |-> ZeroRoot]

\* Store.GenesisStore, the checkpoint both fields are set to.
GenesisCheckpoint(blkRoot) == [epoch |-> 0, root |-> blkRoot]

\* Store.GenesisStore
GenesisStore(genesisState, persist) ==
    /\ ret.op = "init"
    /\ LET stateRoot == HashTreeRoot(genesisState)
           genesisBlk == NewGenesisBlock(stateRoot)
           blkRoot == SigningRoot(genesisBlk)
           w == SaveBlockBuckets(blocksBucket, parentRootIdx, slotIdx, genesisBlk)
       IN /\ justifiedCheckpt' = GenesisCheckpoint(blkRoot)
          /\ finalizedCheckpt' = GenesisCheckpoint(blkRoot)
          /\ IF persist = "block"
             THEN /\ UNCHANGED <<blocksBucket, parentRootIdx, slotIdx,
                                 stateBucket, checkptBlkRoot>>
                  /\ ret' = Ret("GenesisStore", blkRoot, "save block", NoState, 0, 0)
             ELSE /\ blocksBucket' = w.blocks
                  /\ parentRootIdx' = w.pIdx
                  /\ slotIdx' = w.sIdx
                  /\ IF persist = "state"
                     THEN /\ UNCHANGED <<stateBucket, checkptBlkRoot>>
                          /\ ret' = Ret("GenesisStore", blkRoot, "save state",
                                        NoState, 0, 0)
                     ELSE /\ stateBucket' =
                                SaveStateBucket(stateBucket, genesisState, blkRoot)
                          /\ checkptBlkRoot' =
                                (HashProto(justifiedCheckpt') :> blkRoot)
                                    @@ checkptBlkRoot
                          /\ ret' = Ret("GenesisStore", blkRoot, "ok",
                                        genesisState, 0, 0)
    /\ UNCHANGED votes
    /\ UNCHANGED syncVars
    /\ UNCHANGED auxVars

\* OnBlockCheck with the descendant check made before the slot-time check.
OnBlockCheck_descendantFirst(bkt, sbkt, finalized, b, now) ==
    LET preState == verifyBlkPreState(sbkt, b)
        root == SigningRoot(b)
    IN IF preState = NoState THEN "pre state"
       ELSE IF ~verifyBlkDescendant(bkt, finalized, root)
            THEN "not descendant"
       ELSE IF ~verifyBlkSlotTime(preState.genesis_time, b.slot, now)
            THEN "future slot"
       ELSE IF ~verifyBlkFinalizedSlot(finalized, b)
            THEN "before finalized"
       ELSE IF ExecuteStateTransition(preState, b) = NoState
            THEN "state transition"
       ELSE ""

\* The error Store.OnBlock returns before it writes anything, "" when all
\* checks pass.
OnBlockCheck(bkt, sbkt, finalized, b, now) ==
    LET preState == verifyBlkPreState(sbkt, b)
        root == SigningRoot(b)
    IN IF preState = NoState THEN "pre state"
       ELSE IF ~verifyBlkSlotTime(preState.genesis_time, b.slot, now)
            THEN "future slot"
       ELSE IF ~verifyBlkDescendant(bkt, finalized, root)
            THEN "not descendant"
       ELSE IF ~verifyBlkFinalizedSlot(finalized, b)
            THEN "before finalized"
       ELSE IF ExecuteStateTransition(preState, b) = NoState
            THEN "state transition"
       ELSE ""

\* OnBlockWrites with the block stored before the descendant check, as in the
\* pseudocode of on_block.
OnBlockWrites_blockFirst(err, persist) ==
    IF err \in {"pre state", "future slot"} THEN {}
    ELSE IF err # "" THEN {"block"}
    ELSE IF persist = "block" THEN {}
    ELSE IF persist = "state" THEN {"block"}
    ELSE {"block", "state", "checkpoints"}

\* The writes of Store.OnBlock: which of the block, the state and the
\* checkpoints are written, given the error of the checks and the outcome of
\* the persist step.
OnBlockWrites(err, persist) ==
    IF err # "" THEN {}
    ELSE IF persist = "block" THEN {}
    ELSE IF persist = "state" THEN {"block"}
    ELSE {"block", "state", "checkpoints"}

\* The error Store.OnBlock returns.
OnBlockError(err, persist) ==
    IF err # "" THEN err
    ELSE IF persist = "block" THEN "save block"
    ELSE IF persist = "state" THEN "save state"
    ELSE "ok"

\* UpdateJustified that keeps the justified checkpoint of the store.
UpdateJustified_never(justified, postState) == justified

\* UpdateJustified without the epoch comparison.
UpdateJustified_always(justified, postState) ==
    postState.current_justified_checkpoint

\* Store.OnBlock, update of the justified checkpoint.
UpdateJustified(justified, postState) ==
    IF postState.current_justified_checkpoint.epoch > justified.epoch
    THEN postState.current_justified_checkpoint
    ELSE justified

\* UpdateFinalized without the epoch comparison.
UpdateFinalized_always(finalized, postState) ==
    [finalized EXCEPT !.epoch = postState.finalized_checkpoint.epoch]

\* Store.OnBlock, update of the finalized checkpoint: the epoch is assigned.
UpdateFinalized(finalized, postState) ==
    IF postState.finalized_checkpoint.epoch > finalized.epoch
    THEN [finalized EXCEPT !.epoch = postState.finalized_checkpoint.epoch]
    ELSE finalized

\* Store.OnBlock
OnBlock(b, now, persist) ==
    /\ Initialized
    /\ LET root == SigningRoot(b)
           err == OnBlockCheck(blocksBucket, stateBucket, finalizedCheckpt, b, now)
           preState == verifyBlkPreState(stateBucket, b)
           postState == IF preState = NoState THEN NoState
                        ELSE ExecuteStateTransition(preState, b)
           writes == OnBlockWrites(err, persist)
           w == SaveBlockBuckets(blocksBucket, parentRootIdx, slotIdx, b)
       IN /\ IF "block" \in writes
             THEN /\ blocksBucket' = w.blocks
                  /\ parentRootIdx' = w.pIdx
                  /\ slotIdx' = w.sIdx
             ELSE UNCHANGED <<blocksBucket, parentRootIdx, slotIdx>>
          /\ IF "state" \in writes
             THEN stateBucket' = SaveStateBucket(stateBucket, postState, root)
             ELSE UNCHANGED stateBucket
          /\ IF "checkpoints" \in writes
             THEN /\ justifiedCheckpt' = UpdateJustified(justifiedCheckpt, postState)
                  /\ finalizedCheckpt' = UpdateFinalized(finalizedCheckpt, postState)
             ELSE UNCHANGED <<justifiedCheckpt, finalizedCheckpt>>
          /\ ret' = RetOnBlock(root, OnBlockError(err, persist),
                               IF err = "" THEN postState ELSE NoState, now,
                               root \in DOMAIN blocksBucket
                                  /\ root \in DOMAIN stateBucket)
    /\ UNCHANGED <<votes, checkptBlkRoot>>
    /\ UNCHANGED syncVars
    /\ UNCHANGED auxVars

\* Store.Head, called by a head-query caller.
HeadCall(ord) ==
    /\ Initialized
    /\ ret' = Ret("Head", ZeroRoot, "ok", NoState, 0,
                  StoreHead(blocksBucket, parentRootIdx, slotIdx, stateBucket,
                            votes, justifiedCheckpt, checkptBlkRoot, ord))
    /\ UNCHANGED <<blocksBucket, parentRootIdx, slotIdx, stateBucket, votes,
                   justifiedCheckpt, finalizedCheckpt, checkptBlkRoot>>
    /\ UNCHANGED syncVars
    /\ UNCHANGED auxVars

----------------------------------------------------------------------------
\* Gossip validation of proposer slashings: operations.

\* SeenValid that looks the hash up behind the invalid prefix.
SeenValid_wrongKey(cache, cacheKey) == InvalidKey(cacheKey) \in cache

\* SeenInvalid that looks the hash up without the invalid prefix.
SeenInvalid_noPrefix(cache, cacheKey) == ValidKey(cacheKey) \in cache

\* The seen-cache lookups of validateProposerSlashing.
SeenInvalid(cache, cacheKey) == InvalidKey(cacheKey) \in cache
SeenValid(cache, cacheKey)   == ValidKey(cacheKey) \in cache

\* CacheAfterHeadError that remembers the slashing as invalid.
CacheAfterHeadError_poisons(cache, cacheKey) == cache \cup {InvalidKey(cacheKey)}

\* The seen-cache after HeadState returned an error: no Set is made.
CacheAfterHeadError(cache, cacheKey) == cache

\* RegularSync.validateProposerSlashing.  headErr: HeadState fails;
\* bcastErr: the Broadcaster fails (logged only).
validateProposerSlashing(msg, headErr, bcastErr) ==
    LET cacheKey == propSlashingCacheKey(msg)
        invalidKey == InvalidKey(cacheKey)
    IN
    /\ IF msg.type # "ProposerSlashing"
       THEN /\ sret' = SRet("validate", 0, FALSE, FALSE, FALSE)
            /\ UNCHANGED <<seenProposerSlashings, broadcasts, accepted,
                           rejected, dropped, lost>>
       ELSE IF SeenInvalid(seenProposerSlashings, cacheKey)
       THEN /\ sret' = SRet("validate", msg.id, FALSE, FALSE, FALSE)
            /\ UNCHANGED <<seenProposerSlashings, broadcasts, accepted,
                           rejected, dropped, lost>>
       ELSE IF SeenValid(seenProposerSlashings, cacheKey)
       THEN /\ sret' = SRet("validate", msg.id, FALSE, FALSE, FALSE)
            /\ UNCHANGED <<seenProposerSlashings, broadcasts, accepted,
                           rejected, dropped, lost>>
       ELSE IF headErr
       THEN /\ sret' = SRet("validate", msg.id, FALSE, FALSE, FALSE)
            /\ dropped' = dropped \cup {msg.id}
            /\ seenProposerSlashings' =
                 CacheAfterHeadError(seenProposerSlashings, cacheKey)
            /\ UNCHANGED <<broadcasts, accepted, rejected, lost>>
       ELSE IF ~VerifyProposerSlashing(syncHeadState, msg)
       THEN /\ seenProposerSlashings' = seenProposerSlashings \cup {invalidKey}
            /\ sret' = SRet("validate", msg.id, FALSE, TRUE, FALSE)
            /\ rejected' = rejected \cup {msg.id}
            /\ UNCHANGED <<broadcasts, accepted, dropped, lost>>
       ELSE /\ seenProposerSlashings' =
                 seenProposerSlashings \cup {ValidKey(cacheKey)}
            /\ broadcasts' = [broadcasts EXCEPT ![msg.id] = @ + 1]
            /\ accepted' = accepted \cup {msg.id}
            /\ lost' = IF bcastErr THEN lost \cup {msg.id} ELSE lost
            /\ sret' = SRet("validate", msg.id, TRUE, TRUE, TRUE)
            /\ UNCHANGED <<rejected, dropped>>
    /\ scall' = SCall(headErr, bcastErr)
    /\ UNCHANGED <<syncHeadState, pc>>
    /\ UNCHANGED fcVars
    /\ UNCHANGED auxVars

\* The chain moves on: the head state the validator reads changes.
HeadStateChange(h) ==
    /\ h # syncHeadState
    /\ syncHeadState' = h
    /\ sret' = SRet("head", 0, FALSE, FALSE, FALSE)
    /\ UNCHANGED <<seenProposerSlashings, broadcasts, accepted, scall,
                   rejected, dropped, lost, pc>>
    /\ UNCHANGED fcVars
    /\ UNCHANGED auxVars

----------------------------------------------------------------------------
\* Gossip validation of proposer slashings: several validators at once.  A
\* goroutine takes one step per access to the shared seen-cache, head state
\* or Broadcaster; nothing in validateProposerSlashing holds a lock.

\* The slashings the concurrent validators receive.
ConcSlashingIds == {1, 2}

Goto(p, at, id, state) ==
    pc' = [pc EXCEPT ![p] = [at |-> at, id |-> id, state |-> state]]

ConcUnchanged == <<accepted, sret, scall, rejected, dropped>>

\* A validator is handed the slashing and computes its cache key.
ConcReceive(p, id) ==
    /\ pc[p].at = "idle"
    /\ Goto(p, "getInvalid", id, 0)
    /\ UNCHANGED <<seenProposerSlashings, syncHeadState, broadcasts, lost>>
    /\ UNCHANGED ConcUnchanged
    /\ UNCHANGED fcVars
    /\ UNCHANGED auxVars

\* seenProposerSlashings.Get(invalidKey).
ConcGetInvalid(p) ==
    /\ pc[p].at = "getInvalid"
    /\ IF SeenInvalid(seenProposerSlashings, propSlashingCacheKey(pc[p]))
       THEN pc' = [pc EXCEPT ![p] = Idle]
       ELSE Goto(p, "getValid", pc[p].id, 0)
    /\ UNCHANGED <<seenProposerSlashings, syncHeadState, broadcasts, lost>>
    /\ UNCHANGED ConcUnchanged
    /\ UNCHANGED fcVars
    /\ UNCHANGED auxVars

\* seenProposerSlashings.Get(cacheKey).
ConcGetValid(p) ==
    /\ pc[p].at = "getValid"
    /\ IF SeenValid(seenProposerSlashings, propSlashingCacheKey(pc[p]))
       THEN pc' = [pc EXCEPT ![p] = Idle]
       ELSE Goto(p, "headState", pc[p].id, 0)
    /\ UNCHANGED <<seenProposerSlashings, syncHeadState, broadcasts, lost>>
    /\ UNCHANGED ConcUnchanged
    /\ UNCHANGED fcVars
    /\ UNCHANGED auxVars

\* r.db.HeadState(ctx).
ConcHeadState(p, headErr) ==
    /\ pc[p].at = "headState"
    /\ IF headErr
       THEN /\ pc' = [pc EXCEPT ![p] = Idle]
            /\ seenProposerSlashings' =
                 CacheAfterHeadError(seenProposerSlashings,
                                     propSlashingCacheKey(pc[p]))
       ELSE /\ Goto(p, "verify", pc[p].id, syncHeadState)
            /\ UNCHANGED seenProposerSlashings
    /\ UNCHANGED <<syncHeadState, broadcasts, lost>>
    /\ UNCHANGED ConcUnchanged
    /\ UNCHANGED fcVars
    /\ UNCHANGED auxVars

\* blocks.VerifyProposerSlashing on the state read, then the Set of the
\* invalid or of the valid key.
ConcVerifyAndSet(p) ==
    /\ pc[p].at = "verify"
    /\ LET cacheKey == propSlashingCacheKey(pc[p])
       IN IF ~VerifyProposerSlashing(pc[p].state, pc[p])
          THEN /\ seenProposerSlashings' =
                    seenProposerSlashings \cup {InvalidKey(cacheKey)}
               /\ pc' = [pc EXCEPT ![p] = Idle]
          ELSE /\ seenProposerSlashings' =
                    seenProposerSlashings \cup {ValidKey(cacheKey)}
               /\ Goto(p, "broadcast", pc[p].id, 0)
    /\ UNCHANGED <<syncHeadState, broadcasts, lost>>
    /\ UNCHANGED ConcUnchanged
    /\ UNCHANGED fcVars
    /\ UNCHANGED auxVars

\* p.Broadcast(ctx, slashing) and the return of true.
ConcBroadcast(p, bcastErr) ==
    /\ pc[p].at = "broadcast"
    /\ broadcasts' = [broadcasts EXCEPT ![pc[p].id] = @ + 1]
    /\ lost' = IF bcastErr THEN lost \cup {pc[p].id} ELSE lost
    /\ pc' = [pc EXCEPT ![p] = Idle]
    /\ UNCHANGED <<seenProposerSlashings, syncHeadState>>
    /\ UNCHANGED ConcUnchanged
    /\ UNCHANGED fcVars
    /\ UNCHANGED auxVars

----------------------------------------------------------------------------
\* The block bucket of the kv store on its own: SaveBlock, DeleteBlock,
\* SaveHeadBlockRoot, HeadBlock and the block queries.

\* headBlockRootKey, a key that is no block root.
HeadBlockRootKey == 0 - 2

\* append(slotIdx, uint64ToBytes(slot)...): the slot behind the slotIdx
\* prefix, a key that differs from uint64ToBytes(slot) of every slot.
SlotIdxPrefix == 1000
PrefixedSlotKey(slot) == SlotIdxPrefix + slot

\* The value SaveHeadBlockRoot puts: the 32 bytes of the root.
HeadRootValue(root) == [headRoot |-> root]

\* proto.Unmarshal into a BeaconBlock when it returns no error: the block
\* that was marshalled, the zero-valued block for no bytes, and whatever the
\* 32 bytes of a root happen to decode to.
GarbageBlock == [slot |-> 0, parent_root |-> ZeroRoot, state_root |-> 0 - 3,
                 body |-> Body(FALSE, 0, 0)]
Unmarshal(bkt, key) ==
    IF key \notin DOMAIN bkt THEN EmptyBlock
    ELSE IF DOMAIN bkt[key] = {"headRoot"} THEN GarbageBlock
    ELSE bkt[key]

\* Whether proto.Unmarshal is handed bytes that are no marshalled block.
UnmarshalsRoot(bkt, keys) ==
    \E k \in keys : k \in DOMAIN bkt /\ DOMAIN bkt[k] = {"headRoot"}

\* deleteValueForIndicesMap on one index key.
DeleteIndex(idx, key, root) ==
    IF key \in DOMAIN idx THEN [idx EXCEPT ![key] = @ \ {root}] ELSE idx

\* kv.Store.HeadBlock: reads the head root and the block from the validators
\* bucket, whose keys are validator indices.
HeadBlock(validatorsBkt) ==
    IF HeadBlockRootKey \notin DOMAIN validatorsBkt THEN EmptyBlock
    ELSE LET headRoot == validatorsBkt[HeadBlockRootKey].headRoot
         IN IF headRoot \notin DOMAIN validatorsBkt THEN EmptyBlock
            ELSE validatorsBkt[headRoot]

\* The blocks that can be saved and the filters that are asked.
DbBlocks == {BlockTable[r] : r \in Roots}
DbFilters ==
    {NilFilter,
     NewFilter,
     SetParentRoot(NewFilter, 1),
     SetEndSlot(SetStartSlot(NewFilter, 1), 9),
     SetEndSlot(SetStartSlot(SetParentRoot(NewFilter, 1), 1), 1),
     SetEndSlot(SetStartSlot(SetParentRoot(NewFilter, 1), 1), 9),
     SetEndSlot(SetStartSlot(SetParentRoot(NewFilter, 3), 17), 17)}

DbRet(op, root, f, err, blocks, roots) ==
    [op |-> op, root |-> root, filter |-> f, err |-> err, blocks |-> blocks,
     roots |-> roots]

DbUnchanged == <<stateBucket, votes, justifiedCheckpt, finalizedCheckpt,
                 checkptBlkRoot>>

\* kv.Store.SaveBlock
DbSaveBlock(block) ==
    /\ LET w == SaveBlockBuckets(blocksBucket, parentRootIdx, slotIdx, block)
       IN /\ blocksBucket' = w.blocks
          /\ parentRootIdx' = w.pIdx
          /\ slotIdx' = w.sIdx
    /\ ret' = DbRet("SaveBlock", SigningRoot(block), NilFilter, "ok", {}, {})
    /\ UNCHANGED DbUnchanged
    /\ UNCHANGED syncVars
    /\ UNCHANGED auxVars

\* kv.Store.DeleteBlock
DeleteBlock(blockRoot) ==
    /\ IF blockRoot \notin DOMAIN blocksBucket
       THEN UNCHANGED <<blocksBucket, parentRootIdx, slotIdx>>
       ELSE LET block == blocksBucket[blockRoot]
            IN /\ parentRootIdx' =
                    DeleteIndex(parentRootIdx, ToBytes32(block.parent_root),
                                blockRoot)
               /\ slotIdx' =
                    DeleteIndex(slotIdx, PrefixedSlotKey(block.slot), blockRoot)
               /\ blocksBucket' =
                    [k \in DOMAIN blocksBucket \ {blockRoot} |-> blocksBucket[k]]
    /\ ret' = DbRet("DeleteBlock", blockRoot, NilFilter, "ok", {}, {})
    /\ UNCHANGED DbUnchanged
    /\ UNCHANGED syncVars
    /\ UNCHANGED auxVars

\* kv.Store.SaveHeadBlockRoot
SaveHeadBlockRoot(blockRoot) ==
    /\ blocksBucket' = (HeadBlockRootKey :> HeadRootValue(blockRoot)) @@ blocksBucket
    /\ ret' = DbRet("SaveHeadBlockRoot", blockRoot, NilFilter, "ok", {}, {})
    /\ UNCHANGED <<parentRootIdx, slotIdx>>
    /\ UNCHANGED DbUnchanged
    /\ UNCHANGED syncVars
    /\ UNCHANGED auxVars

\* A caller reads the head block.
HeadBlockCall ==
    /\ ret' = DbRet("HeadBlock", ZeroRoot, NilFilter, "ok", {HeadBlock(votes)}, {})
    /\ UNCHANGED <<blocksBucket, parentRootIdx, slotIdx>>
    /\ UNCHANGED DbUnchanged
    /\ UNCHANGED syncVars
    /\ UNCHANGED auxVars

\* kv.Store.Blocks and kv.Store.BlockRoots with one filter.  unmarshalErr:
\* proto.Unmarshal returns an error for bytes that are no marshalled block.
BlocksCall(f, unmarshalErr) ==
    /\ LET keys == BlockKeys(blocksBucket, parentRootIdx, slotIdx, f)
           blocks == {Unmarshal(blocksBucket, k) : k \in keys}
       IN IF unmarshalErr /\ UnmarshalsRoot(blocksBucket, keys)
          THEN ret' = DbRet("Blocks", ZeroRoot, f, "unmarshal", {}, {})
          ELSE ret' = DbRet("Blocks", ZeroRoot, f, "ok", blocks,
                            {SigningRoot(b) : b \in blocks})
    /\ UNCHANGED <<blocksBucket, parentRootIdx, slotIdx>>
    /\ UNCHANGED DbUnchanged
    /\ UNCHANGED syncVars
    /\ UNCHANGED auxVars

Next ==
    \/ \E g \in GenesisStates, p \in PersistOutcomes : GenesisStore(g, p)
    \/ \E b \in InputBlocks : SaveBlock(b)
    \/ \E i \in ValidatorIndices : \E r \in VoteRoots(i) : SaveValidatorLatestVote(i, r)
    \/ \E b \in InputBlocks, now \in Times, p \in PersistOutcomes : OnBlock(b, now, p)
    \/ \E ord \in Orders : HeadCall(ord)

Spec == Init /\ [][Next]_vars


NextSync ==
    \/ \E m \in Messages, headErr \in BOOLEAN, bcastErr \in BOOLEAN :
          validateProposerSlashing(m, headErr, bcastErr)
    \/ \E h \in HeadStates : HeadStateChange(h)

SpecSync == Init /\ [][NextSync]_vars

NextConc ==
    \/ \E p \in Procs, x \in ConcSlashingIds : ConcReceive(p, x)
    \/ \E p \in Procs : ConcGetInvalid(p)
    \/ \E p \in Procs : ConcGetValid(p)
    \/ \E p \in Procs, headErr \in BOOLEAN : ConcHeadState(p, headErr)
    \/ \E p \in Procs : ConcVerifyAndSet(p)
    \/ \E p \in Procs, bcastErr \in BOOLEAN : ConcBroadcast(p, bcastErr)
    \/ \E h \in HeadStates : HeadStateChange(h)

SpecConc == Init /\ [][NextConc]_vars

NextDb ==
    \/ \E b \in DbBlocks : DbSaveBlock(b)
    \/ \E r \in Roots : DeleteBlock(r)
    \/ \E r \in Roots : SaveHeadBlockRoot(r)
    \/ HeadBlockCall
    \/ \E f \in DbFilters, unmarshalErr \in BOOLEAN : BlocksCall(f, unmarshalErr)

SpecDb == Init /\ [][NextDb]_vars

----------------------------------------------------------------------------
\* The chain service's health check (blockchain/service.go and
\* deprecated-blockchain/service.go, the same code in both).

\* The goroutines the model lets run at once.
MaxGoroutines == 7

\* cfg.MaxRoutines, an int64 the operator chooses; it may be zero or negative.
MaxRoutinesChoices == {0 - 1, 0, 2, 3, 5}

\* int(x) of an int64 x: int has the width of int64 on the builds of the
\* node, two's complement at the model's word width.
ToInt(x) == ((x + (Uint64 \div 2)) % Uint64) - (Uint64 \div 2)

StatusRet(op, err, count, max) ==
    [op |-> op, err |-> err, count |-> count, max |-> max]

StatusUnchanged == <<wire, encRet, peerIdx, nodeIsSynced, regularSyncOn,
                     headStateRoot, initRet, lock>>

\* NewChainService: maxRoutines: cfg.MaxRoutines.
NewChainService(cfgMaxRoutines) ==
    /\ maxRoutines' = cfgMaxRoutines
    /\ statusRet' = StatusRet("NewChainService", FALSE, numGoroutine,
                              cfgMaxRoutines)
    /\ UNCHANGED numGoroutine
    /\ UNCHANGED StatusUnchanged
    /\ UNCHANGED fcVars
    /\ UNCHANGED syncVars

\* A go statement somewhere in the process.
GoroutineStart ==
    /\ numGoroutine < MaxGoroutines
    /\ numGoroutine' = numGoroutine + 1
    /\ UNCHANGED <<maxRoutines, statusRet>>
    /\ UNCHANGED StatusUnchanged
    /\ UNCHANGED fcVars
    /\ UNCHANGED syncVars

\* A goroutine other than the main one returns.
GoroutineExit ==
    /\ numGoroutine > 1
    /\ numGoroutine' = numGoroutine - 1
    /\ UNCHANGED <<maxRoutines, statusRet>>
    /\ UNCHANGED StatusUnchanged
    /\ UNCHANGED fcVars
    /\ UNCHANGED syncVars

StatusError_atMax(num, max) == num >= ToInt(max)

\* runtime.NumGoroutine() > int(c.maxRoutines)
StatusError(num, max) == num > ToInt(max)

\* Status: an error when there are too many goroutines, nil otherwise.
Status ==
    /\ statusRet' = StatusRet("Status", StatusError(numGoroutine, maxRoutines),
                              numGoroutine, maxRoutines)
    /\ UNCHANGED <<numGoroutine, maxRoutines>>
    /\ UNCHANGED StatusUnchanged
    /\ UNCHANGED fcVars
    /\ UNCHANGED syncVars

NextStatus ==
    \/ \E m \in MaxRoutinesChoices : NewChainService(m)
    \/ GoroutineStart
    \/ GoroutineExit
    \/ Status

SpecStatus == Init /\ [][NextStatus]_vars

----------------------------------------------------------------------------
\* The network encoder (SszNetworkEncoder, in db/state_test.go of the
\* source tree).  Bytes are naturals below 256.

\* The longest data field of the short messages, and the length of the one
\* long message, whose body needs a two-byte length prefix.
MaxDataLen  == 2
LongDataLen == 130

DataBytes == {0, 7}

RECURSIVE SeqsUpTo(_, _)
SeqsUpTo(S, n) ==
    IF n = 0 THEN {<<>>}
    ELSE LET shorter == SeqsUpTo(S, n - 1)
         IN  shorter \cup {Append(q, x) : q \in shorter, x \in S}

Zeros(n) == [i \in 1..n |-> 0]

\* A message with one fixed-size field and one variable-length field.
Msg(slot, data) == [slot |-> slot, data |-> data]

\* proto.Message(nil)
NilMsg == [nil |-> TRUE]

WireMessages ==
    {Msg(sl, d) : sl \in {0, 1, 200}, d \in SeqsUpTo(DataBytes, MaxDataLen)}
        \cup {Msg(1, [i \in 1..LongDataLen |-> 7])}

\* The size of the fixed part of a serialized message: slot, then the
\* offset of data.
FixedSize == 3

\* ssz.Marshal: the fixed-size fields in order, little-endian, an offset in
\* place of the variable-length field, then the variable-length data.
Marshal(m) == <<m.slot % 256, m.slot \div 256, FixedSize>> \o m.data

\* ssz.Unmarshal: an error when the fixed part is cut or the offset does
\* not point behind it.
Unmarshal_ssz(b) ==
    IF Len(b) < FixedSize \/ b[3] # FixedSize
    THEN [err |-> TRUE, msg |-> NilMsg]
    ELSE [err |-> FALSE,
          msg |-> Msg(b[1] + (256 * b[2]), SubSeq(b, FixedSize + 1, Len(b)))]

\* proto.EncodeVarint: base 128, little-endian, high bit set on every byte
\* but the last.
RECURSIVE EncodeVarint(_)
EncodeVarint(n) ==
    IF n < 128 THEN <<n>>
    ELSE <<(n % 128) + 128>> \o EncodeVarint(n \div 128)

\* readVarint: reads byte by byte until a byte without the high bit; an
\* error at the end of the input.
RECURSIVE readVarint(_)
readVarint(b) ==
    IF b = <<>> THEN [err |-> TRUE, val |-> 0, rest |-> <<>>]
    ELSE IF b[1] < 128 THEN [err |-> FALSE, val |-> b[1], rest |-> Tail(b)]
    ELSE LET more == readVarint(Tail(b))
         IN  [err |-> more.err,
              val |-> (b[1] - 128) + (128 * more.val),
              rest |-> more.rest]

\* snappy.Encode: the decoded length as a varint, then the data as one
\* literal, whose tag holds length - 1 (in a following byte from 61 on).
SnappyEncode(b) ==
    EncodeVarint(Len(b)) \o
        (IF b = <<>> THEN <<>>
         ELSE IF Len(b) <= 60 THEN <<(Len(b) - 1) * 4>> \o b
         ELSE <<60 * 4, Len(b) - 1>> \o b)

\* snappy.Decode: an error unless the literals add up to the decoded length.
SnappyDecode(b) ==
    LET hdr  == readVarint(b)
        body == hdr.rest
        lit  == IF body = <<>> THEN <<>>
                ELSE IF body[1] = 60 * 4
                     THEN IF Len(body) >= 2 /\ Len(body) - 2 = body[2] + 1
                          THEN SubSeq(body, 3, Len(body)) ELSE <<0 - 1>>
                ELSE IF body[1] % 4 = 0 /\ Len(body) - 1 = (body[1] \div 4) + 1
                     THEN Tail(body) ELSE <<0 - 1>>
    IN  IF hdr.err \/ lit = <<0 - 1>> \/ Len(lit) # hdr.val
        THEN [err |-> TRUE, out |-> <<>>]
        ELSE [err |-> FALSE, out |-> lit]

\* The bytes Encode hands to w.Write; nothing for a nil message.
EncodeBytes(useSnappy, msg) ==
    IF msg = NilMsg THEN <<>>
    ELSE LET b  == Marshal(msg)
             cb == IF useSnappy THEN SnappyEncode(b) ELSE b
         IN  EncodeVarint(Len(cb)) \o cb

\* What one r.Read(b) may return for a buffer of msgLen bytes when avail
\* bytes are left: a bytes.Buffer copies all it can, a network stream may
\* deliver any non-empty part of it.
ReadCounts(msgLen, avail) ==
    LET most == IF msgLen < avail THEN msgLen ELSE avail
    IN  IF most = 0 THEN {0} ELSE 1..most

\* Decode after readVarint: b := make([]byte, msgLen), one r.Read(b) that
\* filled n bytes of it, snappy.Decode if enabled, ssz.Unmarshal.
DecodeBody(useSnappy, msgLen, rest, n) ==
    LET b  == SubSeq(rest, 1, n) \o Zeros(msgLen - n)
        sn == IF useSnappy THEN SnappyDecode(b) ELSE [err |-> FALSE, out |-> b]
    IN  IF msgLen > 0 /\ rest = <<>> THEN [err |-> TRUE, msg |-> NilMsg]
        ELSE IF sn.err THEN [err |-> TRUE, msg |-> NilMsg]
        ELSE Unmarshal_ssz(sn.out)

EncRet(op, useSnappy, msg, wrote, err, to, filled) ==
    [op |-> op, useSnappy |-> useSnappy, msg |-> msg, wrote |-> wrote,
     err |-> err, to |-> to, filled |-> filled]

EncUnchanged == <<numGoroutine, maxRoutines, statusRet, peerIdx, nodeIsSynced,
                  regularSyncOn, headStateRoot, initRet, lock>>

\* Encode on a fresh stream.
Encode(useSnappy, msg) ==
    /\ encRet.op # "Encode"
    /\ wire' = EncodeBytes(useSnappy, msg)
    /\ encRet' = EncRet("Encode", useSnappy, msg, Len(wire'), FALSE, NilMsg,
                        TRUE)
    /\ UNCHANGED EncUnchanged
    /\ UNCHANGED fcVars
    /\ UNCHANGED syncVars

\* Decode with the encoder that wrote the stream; n is what r.Read returns.
Decode ==
    /\ encRet.op = "Encode"
    /\ LET hdr == readVarint(wire)
       IN  IF hdr.err
           THEN /\ wire' = <<>>
                /\ encRet' = EncRet("Decode", encRet.useSnappy, encRet.msg,
                                    encRet.wrote, TRUE, NilMsg, TRUE)
           ELSE \E n \in ReadCounts(hdr.val, Len(hdr.rest)) :
                  LET res == DecodeBody(encRet.useSnappy, hdr.val, hdr.rest, n)
                  IN  /\ wire' = SubSeq(hdr.rest, n + 1, Len(hdr.rest))
                      /\ encRet' = EncRet("Decode", encRet.useSnappy,
                                          encRet.msg, encRet.wrote, res.err,
                                          res.msg, n = hdr.val)
    /\ UNCHANGED EncUnchanged
    /\ UNCHANGED fcVars
    /\ UNCHANGED syncVars

NextEnc ==
    \/ \E useSnappy \in BOOLEAN, msg \in WireMessages \cup {NilMsg} :
          Encode(useSnappy, msg)
    \/ Decode

SpecEnc == Init /\ [][NextEnc]_vars

----------------------------------------------------------------------------
\* Initial sync (deprecated-sync/initial-sync/service.go).

PeerIds == {1, 2, 3}

\* The chain heads the peers answered with, the argument of run.
ChainHeadResponses ==
    [p \in PeerIds |->
        [CanonicalSlot             |-> IF p = 1 THEN 5 ELSE IF p = 2 THEN 7 ELSE 6,
         CanonicalStateRootHash32  |-> 14 + p,
         FinalizedStateRootHash32S |-> IF p = 3 THEN 12 ELSE 11]]

\* The state roots a batch's last block can lead the local head to.
SyncStateRoots == {15, 16, 17, 18}

\* run: the peers sorted by canonical slot, highest first.
SortedPeers ==
    CHOOSE q \in [1..Cardinality(PeerIds) -> PeerIds] :
        /\ \A i, j \in DOMAIN q : i # j => q[i] # q[j]
        /\ \A i, j \in DOMAIN q :
              i < j => ChainHeadResponses[q[i]].CanonicalSlot
                         >= ChainHeadResponses[q[j]].CanonicalSlot

NumPeers == Cardinality(PeerIds)

\* The steps of exitInitialSync that can return an error before the state
\* roots are compared.
ExitFailures == {"none", "validity", "transition"}

InitRet(op, peer, err, stateRoot, peerRoot) ==
    [op |-> op, peer |-> peer, err |-> err, stateRoot |-> stateRoot,
     peerRoot |-> peerRoot]

InitUnchanged == <<numGoroutine, maxRoutines, statusRet, wire, encRet, lock>>

\* exitInitialSync(block, chainHead): fail names the step that fails, newRoot
\* the state root of the state the block advances to.  The result holds
\* the error and the fields of the service and the db after the call.
exitInitialSync(fail, newRoot, chainHead) ==
    IF nodeIsSynced
    THEN [err |-> "nil", synced |-> TRUE, resumed |-> regularSyncOn,
          head |-> headStateRoot]
    ELSE IF fail # "none"
    THEN [err |-> fail, synced |-> FALSE, resumed |-> regularSyncOn,
          head |-> headStateRoot]
    ELSE IF newRoot # ToBytes32(chainHead.CanonicalStateRootHash32)
    THEN [err |-> "ErrCanonicalStateMismatch", synced |-> FALSE,
          resumed |-> regularSyncOn, head |-> newRoot]
    ELSE [err |-> "nil", synced |-> TRUE, resumed |-> TRUE, head |-> newRoot]

\* run: the first peer of the sorted list; syncToPeer asks it for its state.
run ==
    /\ peerIdx = 0
    /\ peerIdx' = 1
    /\ initRet' = InitRet("run", SortedPeers[1], "nil", headStateRoot, 0)
    /\ UNCHANGED <<nodeIsSynced, regularSyncOn, headStateRoot>>
    /\ UNCHANGED InitUnchanged
    /\ UNCHANGED fcVars
    /\ UNCHANGED syncVars

Syncing == peerIdx \in 1..NumPeers /\ ~nodeIsSynced

\* syncToPeer, case <-ctx.Done(): the error goes to run, which continues
\* with the next peer.
syncToPeerTimeout ==
    /\ Syncing
    /\ peerIdx' = peerIdx + 1
    /\ initRet' = InitRet("timeout", SortedPeers[peerIdx], "deadline exceeded",
                          headStateRoot, 0)
    /\ UNCHANGED <<nodeIsSynced, regularSyncOn, headStateRoot>>
    /\ UNCHANGED InitUnchanged
    /\ UNCHANGED fcVars
    /\ UNCHANGED syncVars

\* syncToPeer, case msg := <-s.stateBuf: an error of processState goes to
\* run; otherwise processState, a helper of the package, has saved the
\* peer's finalized state as the local head state, and the loop goes on.
syncToPeerState(err) ==
    /\ Syncing
    /\ LET chainHead == ChainHeadResponses[SortedPeers[peerIdx]]
       IN  IF err
           THEN /\ peerIdx' = peerIdx + 1
                /\ initRet' = InitRet("processState", SortedPeers[peerIdx],
                                      "error", headStateRoot, 0)
                /\ UNCHANGED headStateRoot
           ELSE /\ headStateRoot' = chainHead.FinalizedStateRootHash32S
                /\ initRet' = InitRet("processState", SortedPeers[peerIdx],
                                      "nil", headStateRoot', 0)
                /\ UNCHANGED peerIdx
    /\ UNCHANGED <<nodeIsSynced, regularSyncOn>>
    /\ UNCHANGED InitUnchanged
    /\ UNCHANGED fcVars
    /\ UNCHANGED syncVars

\* syncToPeer, case msg := <-s.batchedBlockBuf.  A message of another peer
\* is skipped.  processBatchedBlocks calls exitInitialSync when the batch
\* reaches the peer's canonical slot and returns its error; an error is
\* logged and the loop goes on with the same peer.  Without an error
\* syncToPeer returns: nil when the node is synced, which ends run's loop,
\* an error otherwise, on which run continues with the next peer.
syncToPeerBatch(from, reaches, fail, newRoot) ==
    /\ Syncing
    /\ LET peer      == SortedPeers[peerIdx]
           chainHead == ChainHeadResponses[peer]
           peerRoot  == ToBytes32(chainHead.CanonicalStateRootHash32)
           res       == exitInitialSync(fail, newRoot, chainHead)
       IN  IF from # peer
           THEN /\ initRet' = InitRet("skipped", from, "nil", headStateRoot, 0)
                /\ UNCHANGED <<peerIdx, nodeIsSynced, regularSyncOn,
                               headStateRoot>>
           ELSE IF ~reaches
           THEN /\ initRet' = InitRet("processBatchedBlocks", peer,
                                      "still not in sync", headStateRoot, 0)
                /\ peerIdx' = peerIdx + 1
                /\ UNCHANGED <<nodeIsSynced, regularSyncOn, headStateRoot>>
           ELSE /\ initRet' = InitRet("exitInitialSync", peer, res.err,
                                      res.head, peerRoot)
                /\ nodeIsSynced' = res.synced
                /\ regularSyncOn' = res.resumed
                /\ headStateRoot' = res.head
                /\ UNCHANGED peerIdx
    /\ UNCHANGED InitUnchanged
    /\ UNCHANGED fcVars
    /\ UNCHANGED syncVars

NextInit ==
    \/ run
    \/ syncToPeerTimeout
    \/ \E err \in BOOLEAN : syncToPeerState(err)
    \/ \E from \in PeerIds, reaches \in BOOLEAN, fail \in ExitFailures,
          newRoot \in SyncStateRoots :
            syncToPeerBatch(from, reaches, fail, newRoot)

SpecInit == Init /\ [][NextInit]_vars

----------------------------------------------------------------------------
\* The slot-time check of OnBlock on its own, over slots and genesis times
\* of the whole unsigned range.

\* Slots a received block can carry: small ones, and ones whose product
\* with SecondsPerSlot does not fit the word.
CheckedSlots ==
    0..20 \cup {(Uint64 \div SecondsPerSlot) + 1, Uint64 - 1}

\* preState.GenesisTime
CheckedGenesisTimes == {GenesisState.genesis_time, Uint64 - 10}

\* uint64(time.Now().Unix())
CheckedTimes == Times \cup {GenesisState.genesis_time + 60}

\* verifyBlkSlotTime(gensisTime, blkSlot), with the clock reading now.
verifyBlkSlotTimeCall(gensisTime, blkSlot, now) ==
    /\ ret' = Ret("verifyBlkSlotTime", blkSlot,
                  IF verifyBlkSlotTime(gensisTime, blkSlot, now)
                  THEN "ok" ELSE "future slot",
                  NoState, now, gensisTime)
    /\ UNCHANGED <<blocksBucket, parentRootIdx, slotIdx, stateBucket, votes,
                   justifiedCheckpt, finalizedCheckpt, checkptBlkRoot>>
    /\ UNCHANGED syncVars
    /\ UNCHANGED auxVars

NextTime ==
    \E gensisTime \in CheckedGenesisTimes, blkSlot \in CheckedSlots,
       now \in CheckedTimes : verifyBlkSlotTimeCall(gensisTime, blkSlot, now)

SpecTime == Init /\ [][NextTime]_vars

----------------------------------------------------------------------------
\* Block admission on a store from which blocks are also deleted.

NextPrune ==
    \/ \E g \in GenesisStates : GenesisStore(g, "ok")
    \/ \E b \in InputBlocks : SaveBlock(b)
    \/ \E b \in InputBlocks, now \in Times, p \in PersistOutcomes : OnBlock(b, now, p)
    \/ \E r \in Roots : Initialized /\ DeleteBlock(r)

SpecPrune == Init /\ [][NextPrune]_vars

----------------------------------------------------------------------------
\* Store.Head one iteration of its loop at a time, on a store that holds
\* still during the walk.

\* The blocks that are stored before the walk: E, A, C and F.
WalkBlocks == {BlockTable[r] : r \in {2, 3, 5, 6}}

\* The votes of validator 1 that are stored before the walk.
WalkVoteRoots == {5}

\* The locals of Head: the block the walk stands on, whether it returned,
\* and the iterations made.
HeadRet(head, done, iterations) ==
    [op |-> "HeadWalk", head |-> head, done |-> done,
     iterations |-> iterations]

Walking == ret.op = "HeadWalk" /\ ~ret.done

FcUnchanged == <<blocksBucket, parentRootIdx, slotIdx, stateBucket, votes,
                 justifiedCheckpt, finalizedCheckpt, checkptBlkRoot>>

\* head := s.justifiedCheckpt.Root
HeadWalkStart ==
    /\ Initialized
    /\ ~Walking
    /\ ret' = HeadRet(justifiedCheckpt.root, FALSE, 0)
    /\ UNCHANGED FcUnchanged
    /\ UNCHANGED syncVars
    /\ UNCHANGED auxVars

HeadWalkStep_stays(ord) ==
    /\ Walking
    /\ ret' = HeadRet(ret.head, FALSE, (ret.iterations + 1) % 4)
    /\ UNCHANGED FcUnchanged
    /\ UNCHANGED syncVars
    /\ UNCHANGED auxVars

\* One iteration of the for loop: the children query, the return when there
\* is no child, otherwise the move to the best child.
HeadWalkStep(ord) ==
    /\ Walking
    /\ LET children == Listed(HeadChildren(blocksBucket, parentRootIdx, slotIdx,
                                           justifiedCheckpt, ret.head), ord)
           bal == [c \in {children[i] : i \in 1..Len(children)} |->
                      latestAttestingBalance(blocksBucket, stateBucket, votes,
                                             justifiedCheckpt, checkptBlkRoot, c)]
       IN  IF Len(children) = 0
           THEN ret' = HeadRet(ret.head, TRUE, ret.iterations)
           ELSE ret' = HeadRet(PickChild(children, bal), FALSE,
                               ret.iterations + 1)
    /\ UNCHANGED FcUnchanged
    /\ UNCHANGED syncVars
    /\ UNCHANGED auxVars

NextHead ==
    \/ \E g \in GenesisStates : GenesisStore(g, "ok")
    \/ \E b \in WalkBlocks : ~Walking /\ SaveBlock(b)
    \/ \E r \in WalkVoteRoots : ~Walking /\ SaveValidatorLatestVote(1, r)
    \/ HeadWalkStart
    \/ \E ord \in Orders : HeadWalkStep(ord)

\* The goroutine that runs Head is scheduled until Head returns.
SpecHead ==
    Init /\ [][NextHead]_vars /\ WF_vars(\E ord \in Orders : HeadWalkStep(ord))

----------------------------------------------------------------------------
\* The fork-choice store under concurrent callers: goroutines 1 and 2 call
\* GenesisStore and OnBlock, goroutine 3 calls Head.  A step holds one
\* access to the fields of the Store or one db transaction; pc[p].at names
\* the access the goroutine makes next, pc[p].id the block root or the
\* head of the call, pc[p].state the other locals.

FcWriters == {1, 2}
FcReader  == 3

\* The blocks OnBlock is called with: E, A and C.
FcBlocks == {BlockTable[r] : r \in {2, 3, 5}}

\* time.Now() during the calls: late enough for every slot.
FcNow == CHOOSE t \in Times : \A u \in Times : t >= u

FcSyncUnchanged == <<seenProposerSlashings, syncHeadState, broadcasts, accepted,
                     sret, scall, rejected, dropped, lost>>
FcAuxUnchanged == <<numGoroutine, maxRoutines, statusRet, wire, encRet, peerIdx,
                    nodeIsSynced, regularSyncOn, headStateRoot, initRet>>

\* s.lock.Lock() can go on when no one holds the lock, s.lock.RLock() when
\* no writer holds it.
CanLock  == lock.writer = 0 /\ lock.readers = {}
CanRLock == lock.writer = 0

\* A call of GenesisStore.
FcCallGenesisStore ==
    /\ pc[1] = Idle
    /\ justifiedCheckpt = NilCheckpt
    /\ Goto(1, "gCheckpts", SigningRoot(NewGenesisBlock(HashTreeRoot(GenesisState))), 0)
    /\ UNCHANGED <<FcUnchanged, ret, lock>>
    /\ UNCHANGED <<FcSyncUnchanged, FcAuxUnchanged>>

\* s.justifiedCheckpt = ...; s.finalizedCheckpt = ...
FcGenesisCheckpts ==
    /\ pc[1].at = "gCheckpts"
    /\ justifiedCheckpt' = GenesisCheckpoint(pc[1].id)
    /\ finalizedCheckpt' = GenesisCheckpoint(pc[1].id)
    /\ Goto(1, "gSaveBlock", pc[1].id, 0)
    /\ UNCHANGED <<blocksBucket, parentRootIdx, slotIdx, stateBucket, votes,
                   checkptBlkRoot, ret, lock>>
    /\ UNCHANGED <<FcSyncUnchanged, FcAuxUnchanged>>

\* s.db.SaveBlock(ctx, genesisBlk)
FcGenesisSaveBlock ==
    /\ pc[1].at = "gSaveBlock"
    /\ LET w == SaveBlockBuckets(blocksBucket, parentRootIdx, slotIdx,
                                 NewGenesisBlock(HashTreeRoot(GenesisState)))
       IN /\ blocksBucket' = w.blocks
          /\ parentRootIdx' = w.pIdx
          /\ slotIdx' = w.sIdx
    /\ Goto(1, "gSaveState", pc[1].id, 0)
    /\ UNCHANGED <<stateBucket, votes, justifiedCheckpt, finalizedCheckpt,
                   checkptBlkRoot, ret, lock>>
    /\ UNCHANGED <<FcSyncUnchanged, FcAuxUnchanged>>

\* s.db.SaveState(ctx, genesisState, blkRoot)
FcGenesisSaveState ==
    /\ pc[1].at = "gSaveState"
    /\ stateBucket' = SaveStateBucket(stateBucket, GenesisState, pc[1].id)
    /\ Goto(1, "gLock", pc[1].id, 0)
    /\ UNCHANGED <<blocksBucket, parentRootIdx, slotIdx, votes, justifiedCheckpt,
                   finalizedCheckpt, checkptBlkRoot, ret, lock>>
    /\ UNCHANGED <<FcSyncUnchanged, FcAuxUnchanged>>

\* s.lock.Lock()
FcGenesisLock ==
    /\ pc[1].at = "gLock"
    /\ CanLock
    /\ lock' = [lock EXCEPT !.writer = 1]
    /\ Goto(1, "gMap", pc[1].id, 0)
    /\ UNCHANGED <<FcUnchanged, ret>>
    /\ UNCHANGED <<FcSyncUnchanged, FcAuxUnchanged>>

\* s.checkptBlkRoot[h] = blkRoot, and the deferred Unlock at the return.
FcGenesisMap ==
    /\ pc[1].at = "gMap"
    /\ checkptBlkRoot' = (HashProto(justifiedCheckpt) :> pc[1].id) @@ checkptBlkRoot
    /\ lock' = [lock EXCEPT !.writer = 0]
    /\ ret' = Ret("GenesisStore", pc[1].id, "ok", GenesisState, 0, 0)
    /\ pc' = [pc EXCEPT ![1] = Idle]
    /\ UNCHANGED <<blocksBucket, parentRootIdx, slotIdx, stateBucket, votes,
                   justifiedCheckpt, finalizedCheckpt>>
    /\ UNCHANGED <<FcSyncUnchanged, FcAuxUnchanged>>

\* A call of OnBlock up to the state transition: the four checks and
\* ExecuteStateTransition.  The call returns when one of them fails.
FcOnBlockChecks(p, b) ==
    /\ pc[p] = Idle
    /\ Initialized
    /\ LET root == SigningRoot(b)
           err == OnBlockCheck(blocksBucket, stateBucket, finalizedCheckpt, b, FcNow)
       IN  IF err # ""
           THEN /\ ret' = RetOnBlock(root, err, NoState, FcNow,
                                     root \in DOMAIN blocksBucket
                                        /\ root \in DOMAIN stateBucket)
                /\ UNCHANGED pc
           ELSE /\ Goto(p, "oSaveBlock", root, 0)
                /\ UNCHANGED ret
    /\ UNCHANGED <<FcUnchanged, lock>>
    /\ UNCHANGED <<FcSyncUnchanged, FcAuxUnchanged>>

\* s.db.SaveBlock(ctx, b)
FcOnBlockSaveBlock(p) ==
    /\ pc[p].at = "oSaveBlock"
    /\ LET w == SaveBlockBuckets(blocksBucket, parentRootIdx, slotIdx,
                                 BlockTable[pc[p].id])
       IN /\ blocksBucket' = w.blocks
          /\ parentRootIdx' = w.pIdx
          /\ slotIdx' = w.sIdx
    /\ Goto(p, "oSaveState", pc[p].id, 0)
    /\ UNCHANGED <<stateBucket, votes, justifiedCheckpt, finalizedCheckpt,
                   checkptBlkRoot, ret, lock>>
    /\ UNCHANGED <<FcSyncUnchanged, FcAuxUnchanged>>

\* The post-state of the block of a call: the checks found its pre-state.
FcPostState(root) ==
    ExecuteStateTransition(verifyBlkPreState(stateBucket, BlockTable[root]),
                           BlockTable[root])

\* s.db.SaveState(ctx, postState, root)
FcOnBlockSaveState(p) ==
    /\ pc[p].at = "oSaveState"
    /\ stateBucket' = SaveStateBucket(stateBucket, FcPostState(pc[p].id), pc[p].id)
    /\ Goto(p, "oCmpJ", pc[p].id, 0)
    /\ UNCHANGED <<blocksBucket, parentRootIdx, slotIdx, votes, justifiedCheckpt,
                   finalizedCheckpt, checkptBlkRoot, ret, lock>>
    /\ UNCHANGED <<FcSyncUnchanged, FcAuxUnchanged>>

\* if postState.CurrentJustifiedCheckpoint.Epoch > s.justifiedCheckpt.Epoch
FcOnBlockCmpJ(p) ==
    /\ pc[p].at = "oCmpJ"
    /\ IF UpdateJustified(justifiedCheckpt, FcPostState(pc[p].id)) # justifiedCheckpt
       THEN Goto(p, "oSetJ", pc[p].id, 0)
       ELSE Goto(p, "oCmpF", pc[p].id, 0)
    /\ UNCHANGED <<FcUnchanged, ret, lock>>
    /\ UNCHANGED <<FcSyncUnchanged, FcAuxUnchanged>>

\* s.justifiedCheckpt = postState.CurrentJustifiedCheckpoint
FcOnBlockSetJ(p) ==
    /\ pc[p].at = "oSetJ"
    /\ justifiedCheckpt' = FcPostState(pc[p].id).current_justified_checkpoint
    /\ Goto(p, "oCmpF", pc[p].id, 0)
    /\ UNCHANGED <<blocksBucket, parentRootIdx, slotIdx, stateBucket, votes,
                   finalizedCheckpt, checkptBlkRoot, ret, lock>>
    /\ UNCHANGED <<FcSyncUnchanged, FcAuxUnchanged>>

FcReturnOnBlock(p) ==
    /\ ret' = RetOnBlock(pc[p].id, "ok", FcPostState(pc[p].id), FcNow, TRUE)
    /\ pc' = [pc EXCEPT ![p] = Idle]

\* if postState.FinalizedCheckpoint.Epoch > s.finalizedCheckpt.Epoch; the
\* call returns when it is not.
FcOnBlockCmpF(p) ==
    /\ pc[p].at = "oCmpF"
    /\ IF UpdateFinalized(finalizedCheckpt, FcPostState(pc[p].id)) # finalizedCheckpt
       THEN Goto(p, "oSetF", pc[p].id, 0) /\ UNCHANGED ret
       ELSE FcReturnOnBlock(p)
    /\ UNCHANGED <<FcUnchanged, lock>>
    /\ UNCHANGED <<FcSyncUnchanged, FcAuxUnchanged>>

\* s.finalizedCheckpt.Epoch = postState.FinalizedCheckpoint.Epoch, and the
\* return.
FcOnBlockSetF(p) ==
    /\ pc[p].at = "oSetF"
    /\ finalizedCheckpt' =
          [finalizedCheckpt EXCEPT
              !.epoch = FcPostState(pc[p].id).finalized_checkpoint.epoch]
    /\ FcReturnOnBlock(p)
    /\ UNCHANGED <<blocksBucket, parentRootIdx, slotIdx, stateBucket, votes,
                   justifiedCheckpt, checkptBlkRoot, lock>>
    /\ UNCHANGED <<FcSyncUnchanged, FcAuxUnchanged>>

\* A call of Head.
FcCallHead ==
    /\ pc[FcReader] = Idle
    /\ Initialized
    /\ Goto(FcReader, "hStart", ZeroRoot, 0)
    /\ UNCHANGED <<FcUnchanged, ret, lock>>
    /\ UNCHANGED <<FcSyncUnchanged, FcAuxUnchanged>>

\* head := s.justifiedCheckpt.Root
FcHeadStart ==
    /\ pc[FcReader].at = "hStart"
    /\ Goto(FcReader, "hChildren", justifiedCheckpt.root, 0)
    /\ UNCHANGED <<FcUnchanged, ret, lock>>
    /\ UNCHANGED <<FcSyncUnchanged, FcAuxUnchanged>>

\* The top of the loop: the start slot from s.justifiedCheckpt.Epoch, the
\* children query, the return without children, the move to an only child.
FcHeadChildren ==
    /\ pc[FcReader].at = "hChildren"
    /\ LET head == pc[FcReader].id
           children == Ascending(HeadChildren(blocksBucket, parentRootIdx,
                                              slotIdx, justifiedCheckpt, head))
       IN  IF Len(children) = 0
           THEN /\ ret' = Ret("Head", ZeroRoot, "ok", NoState, 0, head)
                /\ pc' = [pc EXCEPT ![FcReader] = Idle]
           ELSE IF Len(children) = 1
           THEN /\ Goto(FcReader, "hChildren", children[1], 0)
                /\ UNCHANGED ret
           ELSE /\ Goto(FcReader, "hRLock", children[1],
                        [children |-> children, i |-> 1, highest |-> 0])
                /\ UNCHANGED ret
    /\ UNCHANGED <<FcUnchanged, lock>>
    /\ UNCHANGED <<FcSyncUnchanged, FcAuxUnchanged>>

\* latestAttestingBalance: s.lock.RLock()
FcHeadRLock ==
    /\ pc[FcReader].at = "hRLock"
    /\ CanRLock
    /\ lock' = [lock EXCEPT !.readers = @ \cup {FcReader}]
    /\ Goto(FcReader, "hBalance", pc[FcReader].id, pc[FcReader].state)
    /\ UNCHANGED <<FcUnchanged, ret>>
    /\ UNCHANGED <<FcSyncUnchanged, FcAuxUnchanged>>

\* latestAttestingBalance of the i-th child under the read lock, the
\* deferred RUnlock, and the comparison of Head with the best child so far.
FcHeadBalance ==
    /\ pc[FcReader].at = "hBalance"
    /\ LET l == pc[FcReader].state
           child == l.children[l.i]
           balance == latestAttestingBalance(blocksBucket, stateBucket, votes,
                                             justifiedCheckpt, checkptBlkRoot,
                                             child)
           better == \/ l.i = 1
                     \/ balance > l.highest
                     \/ balance = l.highest /\ child > pc[FcReader].id
           head == IF better THEN child ELSE pc[FcReader].id
           highest == IF better THEN balance ELSE l.highest
       IN  IF l.i = Len(l.children)
           THEN Goto(FcReader, "hChildren", head, 0)
           ELSE Goto(FcReader, "hRLock", head,
                     [l EXCEPT !.i = l.i + 1, !.highest = highest])
    /\ lock' = [lock EXCEPT !.readers = @ \ {FcReader}]
    /\ UNCHANGED <<FcUnchanged, ret>>
    /\ UNCHANGED <<FcSyncUnchanged, FcAuxUnchanged>>

NextFcConc ==
    \/ FcCallGenesisStore
    \/ FcGenesisCheckpts
    \/ FcGenesisSaveBlock
    \/ FcGenesisSaveState
    \/ FcGenesisLock
    \/ FcGenesisMap
    \/ \E b \in FcBlocks : SaveBlock(b)
    \/ \E p \in FcWriters, b \in FcBlocks : FcOnBlockChecks(p, b)
    \/ \E p \in FcWriters : FcOnBlockSaveBlock(p)
    \/ \E p \in FcWriters : FcOnBlockSaveState(p)
    \/ \E p \in FcWriters : FcOnBlockCmpJ(p)
    \/ \E p \in FcWriters : FcOnBlockSetJ(p)
    \/ \E p \in FcWriters : FcOnBlockCmpF(p)
    \/ \E p \in FcWriters : FcOnBlockSetF(p)
    \/ FcCallHead
    \/ FcHeadStart
    \/ FcHeadChildren
    \/ FcHeadRLock
    \/ FcHeadBalance

SpecFcConc == Init /\ [][NextFcConc]_vars

----------------------------------------------------------------------------
\* Properties of block admission.

\* The errors OnBlock returns from its checks and from the state transition.
CheckErrors == {"pre state", "future slot", "not descendant",
                "before finalized", "state transition"}

HeadNow(ord) ==
    StoreHead(blocksBucket, parentRootIdx, slotIdx, stateBucket, votes,
              justifiedCheckpt, checkptBlkRoot, ord)

\* C1: right after a successful GenesisStore, OnBlock of a block at slot 1
\* whose parent is the genesis root, whose slot time is not in the future and
\* whose state transition succeeds returns success, stores the block and its
\* post-state, and Head then returns the root of the block.
C1_LinearExtension ==
    [][(/\ ret.op = "GenesisStore" /\ ret.err = "ok"
        /\ ret'.op = "OnBlock"
        /\ ret'.err \notin {"save block", "save state"}
        /\ BlockTable[ret'.root].slot = 1
        /\ BlockTable[ret'.root].parent_root = ret.root
        /\ verifyBlkSlotTime(ret.post.genesis_time, 1, ret'.now)
        /\ ExecuteStateTransition(ret.post, BlockTable[ret'.root]) # NoState)
       => (/\ ret'.err = "ok"
           /\ ret'.root \in DOMAIN blocksBucket'
           /\ blocksBucket'[ret'.root] = BlockTable[ret'.root]
           /\ ret'.root \in DOMAIN stateBucket'
           /\ stateBucket'[ret'.root] =
                 ExecuteStateTransition(ret.post, BlockTable[ret'.root])
           /\ \A ord \in Orders :
                 StoreHead(blocksBucket', parentRootIdx', slotIdx', stateBucket',
                           votes', justifiedCheckpt', checkptBlkRoot', ord)
                    = ret'.root)]_vars

C3_CheckpointsReplaced ==
    [][(ret'.op = "OnBlock" /\ ret'.err = "ok")
       => (/\ (ret'.post.finalized_checkpoint.epoch > finalizedCheckpt.epoch
                 => finalizedCheckpt' = ret'.post.finalized_checkpoint)
           /\ (ret'.post.current_justified_checkpoint.epoch > justifiedCheckpt.epoch
                 => justifiedCheckpt' = ret'.post.current_justified_checkpoint))]_vars

\* C4: once the store is set up, the epochs of both checkpoints never
\* decrease, and a checkpoint changes only in a successful OnBlock whose
\* post-state carries a strictly higher epoch for it.
C4_CheckpointsMonotone ==
    [][justifiedCheckpt # NilCheckpt
       => (/\ justifiedCheckpt'.epoch >= justifiedCheckpt.epoch
           /\ finalizedCheckpt'.epoch >= finalizedCheckpt.epoch
           /\ (justifiedCheckpt' # justifiedCheckpt
                 => /\ ret'.op = "OnBlock" /\ ret'.err = "ok"
                    /\ ret'.post.current_justified_checkpoint.epoch
                          > justifiedCheckpt.epoch)
           /\ (finalizedCheckpt' # finalizedCheckpt
                 => /\ ret'.op = "OnBlock" /\ ret'.err = "ok"
                    /\ ret'.post.finalized_checkpoint.epoch
                          > finalizedCheckpt.epoch))]_vars

\* C4 witness: a block with an older justified checkpoint was admitted after
\* both checkpoints had advanced.
C4_Witness ==
    /\ ret.op = "OnBlock" /\ ret.err = "ok"
    /\ ret.post.current_justified_checkpoint.epoch < justifiedCheckpt.epoch
    /\ finalizedCheckpt.epoch > 0

----------------------------------------------------------------------------
\* Properties of the head walk.

LabNow(root) ==
    latestAttestingBalance(blocksBucket, stateBucket, votes, justifiedCheckpt,
                           checkptBlkRoot, root)

ChildrenNow(node) ==
    HeadChildren(blocksBucket, parentRootIdx, slotIdx, justifiedCheckpt, node)

\* The child that is maximal for the pair (balance, root).
MaxChild(children) ==
    CHOOSE c \in children :
        \A d \in children \ {c} :
            \/ LabNow(c) > LabNow(d)
            \/ LabNow(c) = LabNow(d) /\ c > d

\* C5: at a node with several children the walk moves to the child that is
\* maximal for (latest attesting balance, root), in whatever order the
\* children are listed.
C5_BestChildIsMax ==
    Initialized =>
      \A node \in DOMAIN blocksBucket :
        LET children == ChildrenNow(node)
            bal == [c \in children |-> LabNow(c)]
        IN Cardinality(children) > 1 =>
             \A ord \in Orders :
                PickChild(Listed(children, ord), bal) = MaxChild(children)

\* C5 witness: of the stored siblings A and B the walk took A, the lower
\* root, because it has the larger balance, and Head returned A's child C.
C5_Witness ==
    /\ ret.op = "Head"
    /\ ret.val = 5
    /\ {3, 4} \subseteq ChildrenNow(GenesisRoot)
    /\ LabNow(3) > LabNow(4)

\* The nodes Head stands on, from a node on.
RECURSIVE HeadPathFrom(_, _)
HeadPathFrom(head, ord) ==
    LET children == Listed(ChildrenNow(head), ord)
        bal == [c \in ChildrenNow(head) |-> LabNow(c)]
    IN IF Len(children) = 0 THEN {head}
       ELSE {head} \cup HeadPathFrom(PickChild(children, bal), ord)

\* C6: at every node of the walk the candidate children are exactly the
\* stored blocks whose parent is the node and whose slot is greater than the
\* start slot of the justified epoch, and no stored child at or below that
\* slot is walked to.
C6_ChildrenAboveJustifiedSlot ==
    Initialized =>
      \A ord \in Orders :
        \A node \in HeadPathFrom(justifiedCheckpt.root, ord) :
          /\ ChildrenNow(node) =
                {r \in DOMAIN blocksBucket :
                    /\ blocksBucket[r].parent_root = node
                    /\ blocksBucket[r].slot > justifiedCheckpt.epoch * SlotsPerEpoch}
          /\ (node # justifiedCheckpt.root
                => Block(blocksBucket, node).slot
                      > justifiedCheckpt.epoch * SlotsPerEpoch)

\* The stored blocks on the parent chain of a root, the root included.
RECURSIVE Chain(_, _)
Chain(bkt, root) ==
    IF root \notin DOMAIN bkt THEN {}
    ELSE {root} \cup Chain(bkt, bkt[root].parent_root)

\* The balance of section 4.B.3: over the active validators of the state
\* found under checkptBlkRoot[hash(justified)] whose latest vote has the root
\* on its parent chain; 0 when the target block or that state is absent.
AttestingBalanceOf(root) ==
    LET h == HashProto(justifiedCheckpt)
        st == IF h \in DOMAIN checkptBlkRoot
              THEN State(stateBucket, checkptBlkRoot[h]) ELSE NoState
    IN IF st = NoState \/ root \notin DOMAIN blocksBucket THEN 0
       ELSE SumBalances(st,
              {i \in DOMAIN st.validators :
                  /\ st.validators[i].activation_epoch <= st.slot \div SlotsPerEpoch
                  /\ st.slot \div SlotsPerEpoch < st.validators[i].exit_epoch
                  /\ votes[i] # NoVote
                  /\ root \in Chain(blocksBucket, votes[i].root)})

\* C7: latestAttestingBalance(root) is the sum of the effective balances,
\* from the justified state, of the active validators whose latest vote has
\* root as ancestor at root's slot, and 0 when the target block or the
\* justified state is absent.
C7_LatestAttestingBalance ==
    Initialized => \A root \in Roots : LabNow(root) = AttestingBalanceOf(root)

\* Slots asked for: those of the blocks and one that no block has.
AskedSlots == {BlockTable[r].slot : r \in Roots} \cup {3}

\* C8: for a stored root r and a slot s, ancestor(r, s) is the root of the
\* block at slot s on r's parent chain (r itself exactly when r has slot s),
\* and nil exactly when the chain has no block at slot s.
C8_Ancestor ==
    \A r \in DOMAIN blocksBucket : \A s \in AskedSlots :
        LET at == {q \in Chain(blocksBucket, r) : blocksBucket[q].slot = s}
            a == ancestor(blocksBucket, r, s)
        IN /\ (a = r <=> blocksBucket[r].slot = s)
           /\ (at # {} => a \in at)
           /\ (at = {} <=> a = NilRoot)

\* C9: after a successful GenesisStore(S) both checkpoints are epoch 0 with
\* the root of the genesis block built from the hash tree root of S, the
\* genesis block and S are stored under that root, checkptBlkRoot maps the hash
\* of the justified checkpoint to it, and Head returns it.
C9_GenesisStore ==
    (ret.op = "GenesisStore" /\ ret.err = "ok") =>
      LET S == ret.post
          genesisBlk == BlockTable[GenesisRoot]
      IN /\ genesisBlk.state_root = HashTreeRoot(S)
         /\ genesisBlk.slot = 0 /\ genesisBlk.parent_root = ZeroRoot
         /\ justifiedCheckpt = [epoch |-> 0, root |-> GenesisRoot]
         /\ finalizedCheckpt = [epoch |-> 0, root |-> GenesisRoot]
         /\ DOMAIN blocksBucket = {GenesisRoot}
         /\ blocksBucket[GenesisRoot] = genesisBlk
         /\ DOMAIN stateBucket = {GenesisRoot}
         /\ stateBucket[GenesisRoot] = S
         /\ DOMAIN checkptBlkRoot = {HashProto(justifiedCheckpt)}
         /\ checkptBlkRoot[HashProto(justifiedCheckpt)] = GenesisRoot
         /\ \A ord \in Orders : HeadNow(ord) = GenesisRoot

\* C9 witness: GenesisStore has just succeeded.
C9_Witness ==
    /\ ret.op = "GenesisStore" /\ ret.err = "ok"
    /\ GenesisRoot \in DOMAIN blocksBucket

----------------------------------------------------------------------------
\* Properties of gossip validation.

\* C10: sequential calls of validateProposerSlashing with one slashing return
\* true at most once, in a call that invokes the Broadcaster once; the first
\* call that finds the slashing valid against an available head state is that
\* call, and every call after it returns false and does not broadcast.
C10_ValidSlashingOnce ==
    [][\A x \in SlashingIds :
          (sret'.op = "validate" /\ sret'.id = x)
          => (/\ (x \in accepted
                    => /\ sret'.result = FALSE
                       /\ sret'.broadcastCalled = FALSE
                       /\ broadcasts' = broadcasts)
              /\ (sret'.result = TRUE
                    => /\ x \notin accepted
                       /\ sret'.broadcastCalled
                       /\ broadcasts'[x] = 1)
              /\ (sret'.result = FALSE => broadcasts' = broadcasts)
              /\ (sret'.verified /\ x \notin accepted
                  /\ VerifyProposerSlashing(syncHeadState, [id |-> x])
                    => sret'.result = TRUE))]_vars

\* C10 witness: a second call with an accepted slashing has returned false.
C10_Witness ==
    /\ sret.op = "validate"
    /\ sret.id \in accepted
    /\ sret.result = FALSE
    /\ broadcasts[sret.id] = 1

\* C11: a call that ran the predicate and found it failing returns false
\* without a Broadcaster call, and every later call with that slashing returns
\* false without running the predicate and without a Broadcaster call,
\* whatever the head state has become.
C11_InvalidSlashingCached ==
    [][\A x \in SlashingIds :
          (sret'.op = "validate" /\ sret'.id = x)
          => (/\ (sret'.verified /\ ~VerifyProposerSlashing(syncHeadState, [id |-> x])
                    => /\ sret'.result = FALSE
                       /\ sret'.broadcastCalled = FALSE
                       /\ broadcasts' = broadcasts
                       /\ x \in rejected')
              /\ (x \in rejected
                    => /\ sret'.result = FALSE
                       /\ sret'.verified = FALSE
                       /\ sret'.broadcastCalled = FALSE
                       /\ broadcasts' = broadcasts))]_vars

\* C11 witness: a slashing rejected earlier was received again, with a head
\* state available against which it verifies, and the predicate did not run.
C11_Witness ==
    /\ sret.op = "validate"
    /\ sret.id \in rejected
    /\ sret.verified = FALSE
    /\ scall.headErr = FALSE
    /\ VerifyProposerSlashing(syncHeadState, [id |-> sret.id])

\* C12: a call that finds the head state unavailable returns false, makes no
\* Broadcaster call and leaves the seen-cache as it was; a later call with a
\* slashing that so far was only dropped, made with the head state available,
\* runs the predicate and returns its verdict.
C12_HeadStateErrorNotCached ==
    [][\A x \in SlashingIds :
          (sret'.op = "validate" /\ sret'.id = x)
          => (/\ (scall'.headErr
                    => /\ sret'.result = FALSE
                       /\ sret'.broadcastCalled = FALSE
                       /\ broadcasts' = broadcasts
                       /\ seenProposerSlashings' = seenProposerSlashings)
              /\ (x \in dropped /\ x \notin accepted \cup rejected
                  /\ ~scall'.headErr
                    => /\ sret'.verified
                       /\ sret'.result =
                            VerifyProposerSlashing(syncHeadState, [id |-> x])))]_vars

\* C12 witness: a slashing dropped for want of a head state was received
\* again, verified and accepted.
C12_Witness ==
    /\ sret.op = "validate"
    /\ sret.id \in dropped
    /\ sret.verified
    /\ sret.result

\* C13: a valid slashing whose Broadcast call failed is, when received again
\* with a head state against which it verifies, handed to the Broadcaster
\* again.
C13_LostBroadcastRetried ==
    [][\A x \in SlashingIds :
          (/\ sret'.op = "validate" /\ sret'.id = x
           /\ x \in lost
           /\ ~scall'.headErr
           /\ VerifyProposerSlashing(syncHeadState, [id |-> x]))
          => (sret'.broadcastCalled /\ broadcasts'[x] = broadcasts[x] + 1)]_vars

\* C14: with any number of validators running at once, the Broadcaster is
\* invoked at most twice for one slashing.
C14_AtMostOneExtraBroadcast ==
    \A x \in SlashingIds : broadcasts[x] <= 2

----------------------------------------------------------------------------
\* Properties of the admission checks.

\* The block of the last OnBlock call, and the time of its slot.
SlotTimeOf(root) ==
    GenesisState.genesis_time + BlockTable[root].slot * SecondsPerSlot

\* The steps of OnBlock that a block fails when each is asked on its own in
\* a store, in the order of the claim; the state transition can be asked only
\* when there is a pre-state.
FailingSteps(bkt, sbkt, finalized, root, now) ==
    LET b == BlockTable[root]
        pre == State(sbkt, b.parent_root)
    IN <<pre = NoState,
         SlotTimeOf(root) > now,
         ancestor(bkt, root, Block(bkt, finalized.root).slot) # finalized.root,
         b.slot <= finalized.epoch * SlotsPerEpoch,
         pre # NoState /\ ExecuteStateTransition(pre, b) = NoState>>

StepErrors == <<"pre state", "future slot", "not descendant",
                "before finalized", "state transition">>

\* C15: the error OnBlock returns is that of the earliest step, in the order
\* pre-state, slot time, descendant of finalized, later than finalized slot,
\* state transition, that the block fails; a block that fails none gets past
\* the checks.
C15_EarliestFailingStep ==
    [][ret'.op = "OnBlock"
       => LET f == FailingSteps(blocksBucket, stateBucket, finalizedCheckpt,
                                ret'.root, ret'.now)
              failing == {k \in 1..5 : f[k]}
          IN IF failing = {}
             THEN ret'.err \in {"ok", "save block", "save state"}
             ELSE \E k \in failing :
                     /\ \A l \in failing : k <= l
                     /\ ret'.err = StepErrors[k]]_vars

\* C15 witness: a call with a block that fails the slot-time check, the
\* descendant check and the state transition returned the slot-time error.
C15_Witness ==
    /\ ret.op = "OnBlock"
    /\ ret.err = "future slot"
    /\ LET f == FailingSteps(blocksBucket, stateBucket, finalizedCheckpt,
                             ret.root, ret.now)
       IN f[2] /\ f[3] /\ f[5]

\* C16: once the finalized epoch is e > 0, OnBlock of a block with slot at
\* most e * SlotsPerEpoch, whose pre-state is stored and whose slot time is
\* not in the future, returns the before-finalized error.
C16_BeforeFinalizedRejected ==
    [][(/\ ret'.op = "OnBlock"
        /\ finalizedCheckpt # NilCheckpt
        /\ finalizedCheckpt.epoch > 0
        /\ BlockTable[ret'.root].slot <= finalizedCheckpt.epoch * SlotsPerEpoch
        /\ State(stateBucket, BlockTable[ret'.root].parent_root) # NoState
        /\ SlotTimeOf(ret'.root) <= ret'.now)
       => ret'.err = "before finalized"]_vars

\* C17: OnBlock of a block with a stored pre-state does not return the
\* future-slot error when the time of its slot equals the current time, and
\* returns it when the time of its slot is the current time plus one.
C17_SlotTimeBoundary ==
    [][(/\ ret'.op = "OnBlock"
        /\ State(stateBucket, BlockTable[ret'.root].parent_root) # NoState)
       => (/\ (SlotTimeOf(ret'.root) = ret'.now => ret'.err # "future slot")
           /\ (SlotTimeOf(ret'.root) = ret'.now + 1 => ret'.err = "future slot"))]_vars

\* C17 witness: a block was admitted at the very second of its slot.
C17_Witness ==
    /\ ret.op = "OnBlock"
    /\ ret.err = "ok"
    /\ SlotTimeOf(ret.root) = ret.now

\* C18 as stated: OnBlock of a block that is stored together with a state
\* under its root, at a time not before its slot and with working storage,
\* succeeds, stores the post-state that is stored already, and leaves the
\* stored blocks and both checkpoints as they are.
C18_ReapplicationSucceeds ==
    [][(/\ ret'.op = "OnBlock"
        /\ ret'.known
        /\ SlotTimeOf(ret'.root) <= ret'.now
        /\ ret'.err \notin {"save block", "save state"})
       => (/\ ret'.err = "ok"
           /\ ret'.post = stateBucket[ret'.root]
           /\ UNCHANGED <<blocksBucket, parentRootIdx, slotIdx, stateBucket,
                          justifiedCheckpt, finalizedCheckpt>>)]_vars

\* C18: OnBlock of a block that is stored together with a state under its
\* root and whose slot is still later than the start slot of the finalized
\* epoch, at a time not before its slot and with working storage, succeeds,
\* stores the post-state that is stored already, and leaves the stored blocks
\* and both checkpoints as they are.
C18_ReapplicationIdempotent ==
    [][(/\ ret'.op = "OnBlock"
        /\ ret'.known
        /\ SlotTimeOf(ret'.root) <= ret'.now
        /\ BlockTable[ret'.root].slot > finalizedCheckpt.epoch * SlotsPerEpoch
        /\ ret'.err \notin {"save block", "save state"})
       => (/\ ret'.err = "ok"
           /\ ret'.post = stateBucket[ret'.root]
           /\ UNCHANGED <<blocksBucket, parentRootIdx, slotIdx, stateBucket,
                          justifiedCheckpt, finalizedCheckpt>>)]_vars

\* C18 witness: a block admitted earlier was applied again and admitted,
\* after both checkpoints had moved past those of its post-state.
C18_Witness ==
    /\ ret.op = "OnBlock"
    /\ ret.known
    /\ ret.err = "ok"
    /\ ret.post.current_justified_checkpoint.epoch < justifiedCheckpt.epoch
    /\ ret.post.finalized_checkpoint.epoch < finalizedCheckpt.epoch

\* C19: once the store is set up, the root Head returns has the finalized
\* root as its ancestor at the slot of the finalized block.
C19_HeadDescendsFromFinalized ==
    Initialized =>
      \A ord \in Orders :
         ancestor(blocksBucket, HeadNow(ord),
                  Block(blocksBucket, finalizedCheckpt.root).slot)
            = finalizedCheckpt.root

\* C19 witness: the finalized epoch has advanced and Head has returned a
\* block that is not the finalized block.
C19_Witness ==
    /\ ret.op = "Head"
    /\ ret.val # finalizedCheckpt.root
    /\ finalizedCheckpt.epoch > 0
    /\ \A ord \in Orders : HeadNow(ord) = ret.val

\* C20: once the store is set up, the root Head returns is the justified
\* root or a descendant of it whose slot is greater than the start slot of the
\* justified epoch.
C20_HeadAboveJustifiedSlot ==
    Initialized =>
      \A ord \in Orders :
         LET h == HeadNow(ord)
         IN \/ h = justifiedCheckpt.root
            \/ /\ justifiedCheckpt.root \in Chain(blocksBucket, h)
               /\ Block(blocksBucket, h).slot
                     > justifiedCheckpt.epoch * SlotsPerEpoch

----------------------------------------------------------------------------
\* Invariants of the store.

\* C21: once GenesisStore has set the checkpoints, the finalized root is the
\* justified root or is on the stored parent chain of the justified root, and
\* the justified epoch is not below the finalized epoch.
C21_FinalizedBelowJustified ==
    justifiedCheckpt # NilCheckpt =>
      /\ \/ finalizedCheckpt.root = justifiedCheckpt.root
         \/ finalizedCheckpt.root \in Chain(blocksBucket, justifiedCheckpt.root)
      /\ justifiedCheckpt.epoch >= finalizedCheckpt.epoch

\* C21 witness: both checkpoints have advanced and their roots differ.
C21_Witness ==
    /\ Initialized
    /\ finalizedCheckpt.epoch > 0
    /\ justifiedCheckpt.epoch > finalizedCheckpt.epoch
    /\ justifiedCheckpt.root # finalizedCheckpt.root

\* C22: a GenesisStore or OnBlock call made when every stored block has a
\* stored state under its root leaves every stored block with a stored state
\* under its root, also when the call returns an error of the persist step.
C22_EveryBlockHasState ==
    [][(/\ ret'.op \in {"GenesisStore", "OnBlock"}
        /\ DOMAIN blocksBucket \subseteq DOMAIN stateBucket)
       => DOMAIN blocksBucket' \subseteq DOMAIN stateBucket']_vars

\* C23: the block that a GenesisStore call writes has parent root 0, and the
\* block that an OnBlock call writes has a parent that is stored, with a
\* state under its root.
C23_ParentStored ==
    [][/\ (ret'.op = "GenesisStore" /\ ret'.err \in {"ok", "save state"}
            => /\ ret'.root \in DOMAIN blocksBucket'
               /\ blocksBucket'[ret'.root].parent_root = ZeroRoot)
       /\ (ret'.op = "OnBlock" /\ ret'.err \in {"ok", "save state"}
            => /\ ret'.root \in DOMAIN blocksBucket'
               /\ blocksBucket'[ret'.root].parent_root \in DOMAIN blocksBucket'
               /\ blocksBucket'[ret'.root].parent_root \in DOMAIN stateBucket')]_vars

\* C23 witness: OnBlock has admitted a block whose parent is not the genesis
\* block.
C23_Witness ==
    /\ ret.op = "OnBlock"
    /\ ret.err = "ok"
    /\ blocksBucket[ret.root].parent_root # GenesisRoot
    /\ blocksBucket[ret.root].parent_root \in DOMAIN blocksBucket

----------------------------------------------------------------------------
\* Properties of the block bucket.

\* The roots of the blocks in the block bucket.
StoredRoots(bkt) == DOMAIN bkt \ {HeadBlockRootKey}

\* C24: after DeleteBlock(r) of a stored block, r is no key of the block
\* bucket and is listed under no key of the parent-root index and under no
\* key of the slot index.
C24_DeleteDropsIndexEntries ==
    [][(ret'.op = "DeleteBlock" /\ ret'.root \in StoredRoots(blocksBucket))
       => (/\ ret'.root \notin DOMAIN blocksBucket'
           /\ \A k \in DOMAIN parentRootIdx' : ret'.root \notin parentRootIdx'[k]
           /\ \A k \in DOMAIN slotIdx' : ret'.root \notin slotIdx'[k])]_vars

\* C25: Blocks with a parent root R and a slot range [start, end] returns
\* exactly the stored blocks with parent root R and slot in [start, end].
C25_ParentAndSlotRange ==
    [][(/\ ret'.op = "Blocks"
        /\ ret'.filter # NilFilter
        /\ ret'.filter.hasParentRoot
        /\ ret'.filter.hasStartSlot
        /\ ret'.filter.hasEndSlot)
       => (/\ ret'.err = "ok"
           /\ ret'.blocks =
                {blocksBucket[r] : r \in
                    {q \in StoredRoots(blocksBucket) :
                        /\ blocksBucket[q].parent_root = ret'.filter.parentRoot
                        /\ ret'.filter.startSlot <= blocksBucket[q].slot
                        /\ blocksBucket[q].slot <= ret'.filter.endSlot}})]_vars

\* C26: Blocks with no criterion, the filter being nil or empty, returns
\* exactly the stored blocks, also after a head root was saved.
C26_NoCriterionAllBlocks ==
    [][(/\ ret'.op = "Blocks"
        /\ ret'.filter \in {NilFilter, NewFilter})
       => (/\ ret'.err = "ok"
           /\ ret'.blocks =
                {blocksBucket[r] : r \in StoredRoots(blocksBucket)})]_vars

\* C27: HeadBlock called after SaveHeadBlockRoot(r) of a stored block r
\* returns the block r, the r of the latest SaveHeadBlockRoot call.
C27_HeadBlockAfterSave ==
    [][(/\ ret.op = "SaveHeadBlockRoot"
        /\ ret.root \in StoredRoots(blocksBucket)
        /\ ret'.op = "HeadBlock")
       => ret'.blocks = {blocksBucket[ret.root]}]_vars

----------------------------------------------------------------------------
\* Properties of the health check.

----------------------------------------------------------------------------
\* Properties of the network encoder.

\* C28: for every message and for both encoder modes, Decode applied to the
\* bytes Encode wrote, with the same mode, yields a message equal to the
\* encoded one.
C28_RoundTrip ==
    (encRet.op = "Decode" /\ encRet.msg # NilMsg)
        => (~encRet.err /\ encRet.to = encRet.msg)

\* The round trip when the one r.Read call filled the whole buffer.
RoundTripWhenReadFills ==
    (encRet.op = "Decode" /\ encRet.msg # NilMsg /\ encRet.filled)
        => (~encRet.err /\ encRet.to = encRet.msg)


----------------------------------------------------------------------------
\* Properties of initial sync.

\* The node becomes synced only in an exitInitialSync call that found the
\* local head state root equal to the peer's canonical state root, and that
\* call resumes regular sync.
SyncedOnlyByMatchingExit ==
    [][(nodeIsSynced' /\ ~nodeIsSynced)
          => /\ initRet'.op = "exitInitialSync"
             /\ initRet'.err = "nil"
             /\ headStateRoot' = initRet'.peerRoot
             /\ regularSyncOn']_vars

\* A call that finds the state roots different.
ExitMismatch ==
    /\ initRet' # initRet
    /\ initRet'.op = "exitInitialSync"
    /\ headStateRoot' # initRet'.peerRoot
    /\ initRet'.err \notin ExitFailures

\* C30: the node is marked synced, and regular sync resumed, only by an
\* exitInitialSync call in which the local head state root equals the
\* peer's canonical state root; on a mismatch the call returns
\* ErrCanonicalStateMismatch, the node stays unsynced and the run loop goes
\* on to the next peer.
C30_MismatchGoesToNextPeer ==
    [][/\ (nodeIsSynced' /\ ~nodeIsSynced)
            => /\ initRet'.op = "exitInitialSync"
               /\ headStateRoot' = initRet'.peerRoot
               /\ regularSyncOn'
       /\ ExitMismatch
            => /\ initRet'.err = "ErrCanonicalStateMismatch"
               /\ ~nodeIsSynced'
               /\ peerIdx' = peerIdx + 1]_vars

\* After a mismatch with a peer the node is never marked synced by a later
\* batch of that same peer.
MismatchedPeerDropped ==
    [][(initRet.op = "exitInitialSync"
          /\ initRet.err = "ErrCanonicalStateMismatch"
          /\ initRet'.op = "exitInitialSync")
         => initRet'.peer # initRet.peer]_vars

----------------------------------------------------------------------------
\* Properties of the ancestor walk on an incomplete store.

\* C34: ancestor(root, slot) is nil for every root that is not in the block
\* bucket, for every slot including 0, and also when the walk from a stored
\* root reaches a parent that is not stored.
C34_AncestorOfMissingIsNil ==
    /\ \A r \in Roots \ DOMAIN blocksBucket : \A s \in AskedSlots \cup {0} :
          ancestor(blocksBucket, r, s) = NilRoot
    /\ \A r \in Roots \cap DOMAIN blocksBucket : \A s \in AskedSlots \cup {0} :
          LET chain == Chain(blocksBucket, r)
              low   == CHOOSE q \in chain :
                          \A x \in chain : blocksBucket[q].slot <= blocksBucket[x].slot
          IN  (/\ blocksBucket[low].parent_root \in Roots \ DOMAIN blocksBucket
               /\ s < blocksBucket[low].slot)
                  => ancestor(blocksBucket, r, s) = NilRoot

\* C35: Decode takes from the reader exactly the body bytes the length prefix
\* announces, also when the reader delivers the body in shorter reads: after
\* decoding the one message on the stream nothing of it is left unread.
C35_DecodeConsumesBody ==
    (encRet.op = "Decode" /\ encRet.msg # NilMsg) => wire = <<>>

\* C36: after GenesisStore and any successful OnBlock calls, checkptBlkRoot
\* has an entry under the hash of the justified checkpoint, and the entry is
\* the root of the justified checkpoint.
C36_JustifiedCheckpointMapped ==
    Initialized
        => /\ HashProto(justifiedCheckpt) \in DOMAIN checkptBlkRoot
           /\ checkptBlkRoot[HashProto(justifiedCheckpt)] = justifiedCheckpt.root

----------------------------------------------------------------------------
\* Properties of the attesting balances.

RECURSIVE SumOver(_, _)
SumOver(f, S) ==
    IF S = {} THEN 0
    ELSE LET x == CHOOSE y \in S : TRUE IN f[x] + SumOver(f, S \ {x})

\* The stored blocks whose parent is p.
StoredChildren(p) ==
    {c \in Roots \cap DOMAIN blocksBucket : blocksBucket[c].parent_root = p}

\* Every stored block has a larger slot than its parent, when that is stored.
SlotsGrow ==
    \A c \in Roots \cap DOMAIN blocksBucket :
        blocksBucket[c].parent_root \in DOMAIN blocksBucket
            => blocksBucket[c].slot > blocksBucket[blocksBucket[c].parent_root].slot

\* C40: in a store whose blocks have larger slots than their parents, the
\* latest attesting balances of the children of a stored block p add up to
\* at most the latest attesting balance of p.
C40_ChildrenSumAtMostParent ==
    SlotsGrow =>
        \A p \in Roots \cap DOMAIN blocksBucket :
            SumOver([c \in StoredChildren(p) |-> LabNow(c)], StoredChildren(p))
                <= LabNow(p)

\* A block with two children that both have attesting balance.
C40_Witness ==
    /\ SlotsGrow
    /\ \E p \in Roots \cap DOMAIN blocksBucket :
          \E c, d \in StoredChildren(p) :
              c # d /\ LabNow(c) > 0 /\ LabNow(d) > 0

----------------------------------------------------------------------------
\* Properties of the slot-time check at the ends of the unsigned range.

\* C38: the slot-time check rejects every block whose slot time
\* genesis_time + slot * SECONDS_PER_SLOT, computed without wrapping, is
\* greater than the current time, also when the product or the sum does not
\* fit the unsigned word.
C38_FutureSlotRejected ==
    (/\ ret.op = "verifyBlkSlotTime"
     /\ ret.val + (ret.root * SecondsPerSlot) > ret.now)
        => ret.err = "future slot"

----------------------------------------------------------------------------
\* Properties of block admission when the finalized block is missing.

\* C37: OnBlock rejects the block whenever the block under the root of the
\* finalized checkpoint is not in the block bucket: its checks do not pass.
C37_MissingFinalizedRejects ==
    [][(/\ ret'.op = "OnBlock"
        /\ ToBytes32(finalizedCheckpt.root) \notin DOMAIN blocksBucket)
          => ret'.err \in CheckErrors]_vars

----------------------------------------------------------------------------
\* Properties of the termination of the head walk.

\* An iteration that moves the walk.
WalkMoves ==
    Walking /\ ret'.op = "HeadWalk" /\ ret'.iterations = ret.iterations + 1

\* C33 as stated: Head returns on every finite store whose parent pointers
\* form a tree, because each iteration moves to a block of larger slot than
\* the block the walk stands on.
C33_SlotGrowsEachIteration ==
    /\ Walking ~> ~Walking
    /\ [][WalkMoves => Block(blocksBucket, ret'.head).slot
                          > Block(blocksBucket, ret.head).slot]_vars

\* C33: Head returns on every finite store whose parent pointers form a
\* tree, because each iteration moves from the block the walk stands on to
\* one of its stored children.
C33_HeadTerminates ==
    /\ Walking ~> ~Walking
    /\ [][WalkMoves => /\ ret'.head \in DOMAIN blocksBucket
                       /\ blocksBucket[ret'.head].parent_root = ret.head]_vars

\* A walk that returned after it went through a block and on to a child of
\* that block at the same slot.
C33_Witness ==
    /\ ret.op = "HeadWalk"
    /\ ret.done
    /\ ret.iterations >= 2
    /\ ret.head = 6

----------------------------------------------------------------------------
\* The accesses of the concurrent callers to the fields of the Store.

\* The steps of Head and latestAttestingBalance that read justifiedCheckpt
\* or checkptBlkRoot, and the steps of GenesisStore and OnBlock that write
\* justifiedCheckpt, finalizedCheckpt or checkptBlkRoot.
ReadSteps  == {"hStart", "hChildren", "hBalance"}
WriteSteps == {"gCheckpts", "gMap", "oSetJ", "oSetF"}

Steps(p) == pc'[p] # pc[p]

\* C31: every read of the checkpoints and of the checkpoint map by Head and
\* latestAttestingBalance is made with the read lock held, and every write
\* of them by GenesisStore and OnBlock with the write lock held.
C31_AccessesUnderLock ==
    [][\A p \in Procs :
          /\ (Steps(p) /\ pc[p].at \in ReadSteps) => p \in lock.readers
          /\ (Steps(p) /\ pc[p].at \in WriteSteps) => lock.writer = p]_vars

\* An OnBlock call that has written its block and not yet its post-state,
\* or its block and post-state and not yet the checkpoint it advances.
PartlyWritten(p) == pc[p].at \in {"oSaveState", "oSetJ", "oSetF"}

\* The steps of Head that read the blocks and the states of the db.
DbReadSteps == {"hChildren", "hBalance"}

\* C32: no read of the store by Head falls between the writes of one
\* OnBlock call: Head sees none of the writes of the call or all of them.
C32_ReaderSeesAllOrNothing ==
    [][(Steps(FcReader) /\ pc[FcReader].at \in DbReadSteps)
          => \A p \in FcWriters : ~PartlyWritten(p)]_vars

\* C39: under every interleaving of concurrent OnBlock calls the justified
\* and the finalized epoch never decrease.
C39_EpochsNeverDecrease ==
    [][(Initialized /\ justifiedCheckpt' # NilCheckpt /\ finalizedCheckpt' # NilCheckpt)
          => /\ justifiedCheckpt'.epoch >= justifiedCheckpt.epoch
             /\ finalizedCheckpt'.epoch >= finalizedCheckpt.epoch]_vars

====
